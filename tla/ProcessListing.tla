--------------------------- MODULE ProcessListing ---------------------------
(***************************************************************************)
(* How an agent finds out which processes use its GPUs (nvml.py, and       *)
(* nvidia_smi.py when NVML fails) while those processes come and go.       *)
(*                                                                         *)
(* NVML is asked twice for every list of a GPU, for its length and for its *)
(* pids; then /proc is asked about every pid.  A process may start or end, *)
(* and a pid be given to another one, between any two of these calls.  The *)
(* result is kept until the next listing is due.                           *)
(*                                                                         *)
(* Most calls answer with a code, and one that failed does not end the     *)
(* sample: a list that cannot be read passes for empty, and a GPU without  *)
(* a handle or a uuid keeps the list it had.  When NVML itself fails,      *)
(* nvidia-smi is asked instead, which has a cache and a cadence of its own.*)
(*                                                                         *)
(* Of a process its GPU, pid and start time are kept; user, name, command  *)
(* line and memory are left out, and so are the "aggregate" mode and a     *)
(* list NVML gives no permission for.                                      *)
(***************************************************************************)
EXTENDS NodeProcesses

CONSTANTS
  Calls,         \* the lists that are read, in order: 1 .. Calls
  Gpu,           \* [1 .. Calls -> Gpus]: a GPU's compute list, then its graphics list
  Graphics,      \* lists of graphics processes, which nvidia-smi does not show
  Uses,          \* [Procs -> SUBSET (1 .. Calls)]: the lists a process is on
  NoUuid,        \* the "unknown" that stands for every uuid that cannot be read
  Intervals,     \* the process intervals that may be set
  MaxFaults      \* bound: what cannot be read, restarts, changes of the interval

Lists == 1 .. Calls
Never == -1      \* _last_process_at of a sampler that has listed nothing

ASSUME ListingAssumption ==
  /\ Calls \in Nat \ {0}
  /\ Gpu \in [Lists -> Gpus \ {NoUuid}]
  /\ NoUuid \in Gpus
  /\ \A i, j, l \in Lists : i <= j /\ j <= l /\ Gpu[i] = Gpu[l] => Gpu[j] = Gpu[i]
  /\ Graphics \subseteq Lists
  /\ Uses \in [Procs -> SUBSET Lists]
  /\ Intervals \subseteq 1 .. Longest
  /\ Intervals # {}
  /\ MaxFaults \in Nat

VARIABLES
  interval,   \* the process interval
  step,       \* where SnapshotCollector._sample_once is
  list,       \* the list it is at
  uuid,       \* what the GPU of that list is called
  counted,    \* the length NVML named for that list
  raw,        \* entries whose details are still to be read
  found,      \* entries whose details have been read
  said,       \* what this sample has of processes so far
  begun,      \* when this sample was started
  listed,     \* _last_process_at
  shown,      \* _process_snapshot, of all GPUs
  smi,        \* _fallback_processes_by_uuid
  smiDue,     \* _next_fallback_process_at
  named,      \* history: the GPUs this sample has by their names
  steady,     \* history: no process came or went since this listing was begun
  read,       \* history: the lists NVML's has read in full since, of GPUs it has by name
  faults      \* what is left of the bound

cacheVars  == <<listed, shown, smi, smiDue>>
sampleVars == <<list, uuid, counted, raw, found, said, begun, named>>
vars == <<nodeVars, interval, step, sampleVars, cacheVars, read, steady, faults>>

Steps   == {"idle", "gpu", "count", "fill", "detail", "nvml", "query", "reuse", "parse", "smi"}
Entries == [gpu: Gpus, pid: Pids, list: Lists]

\* What NVML shows on a list now, and nvidia-smi on all of its own.  A process on
\* both lists of a GPU is looked up twice.
PidsOn(l)    == {Pid[p] : p \in {q \in Procs : Alive(q) /\ l \in Uses[q]}}
OnLists(set) == UNION {[gpu: {Gpu[l]}, pid: PidsOn(l), list: {l}] : l \in set}

Detailed(e, start) == [gpu |-> e.gpu, pid |-> e.pid, start |-> start]

Fault == faults > 0 /\ faults' = faults - 1

Init ==
  /\ NodeInit
  /\ interval \in Intervals
  /\ step     = "idle"
  /\ list     = 1
  /\ uuid     = NoUuid
  /\ counted  = 0
  /\ raw      = {}
  /\ found    = {}
  /\ said     = {}
  /\ begun    = 0
  /\ listed   = Never
  /\ shown    = {}
  /\ smi      = {}
  /\ smiDue   = 0
  /\ named    = {}
  /\ read     = {}
  /\ steady   = FALSE
  /\ faults   = MaxFaults
----------------------------------------------------------------------------
(* Processes and settings *)

NotSteady == steady' = FALSE /\ read' = {}

Come(p) == Start(p) /\ NotSteady /\ UNCHANGED <<interval, step, sampleVars, cacheVars, faults>>
Go(p)   == Exit(p)  /\ NotSteady /\ UNCHANGED <<interval, step, sampleVars, cacheVars, faults>>

\* A config of the manager.  (What it meets in the thread is Collector's.)
SetInterval(i) ==
  /\ interval # i
  /\ Fault
  /\ interval' = i
  /\ UNCHANGED <<nodeVars, step, sampleVars, cacheVars, read, steady>>
----------------------------------------------------------------------------
(* NVML *)

\* NVMLSampler.sample, when a listing is due: set_process_interval has just put
\* it an interval after the last one.
BeginListing ==
  /\ step = "idle"
  /\ now > sampled
  /\ listed = Never \/ now >= listed + interval
  /\ step'   = "gpu"
  /\ begun'  = now
  /\ read'   = {}
  /\ steady' = TRUE
  /\ UNCHANGED <<nodeVars, interval, list, uuid, counted, raw, found, said, cacheVars, named, faults>>

\* Between listings the last result stands, under the uuids of this sample: some
\* GPUs may have no handle now, and some no uuid.
BeginCached(uuids) ==
  /\ step = "idle"
  /\ now > sampled
  /\ listed # Never /\ now < listed + interval
  /\ IF uuids = Gpus \ {NoUuid} THEN UNCHANGED faults ELSE uuids # Gpus /\ Fault
  /\ step'  = "nvml"
  /\ begun' = now
  /\ named' = uuids
  /\ said'  = {d \in shown : d.gpu \in uuids}
  /\ UNCHANGED <<nodeVars, interval, list, uuid, counted, raw, found, cacheVars, read, steady>>

\* Behind a GPU, of which `keeps` is kept and whose uuids so far are `uuids`: the
\* next one.  Behind the last one the next listing is put off, also that of GPUs
\* which are kept as they were.
NextGpu(keeps, uuids) ==
  LET ahead == {l \in Lists : list < l /\ Gpu[l] # Gpu[list]} IN
  /\ UNCHANGED <<processVars, sampled, newest>>
  /\ \/ /\ \E l \in ahead : (\A i \in ahead : l <= i) /\ list' = l
        /\ step' = "gpu"
        /\ UNCHANGED <<listed, ghosts>>
     \/ /\ ahead = {}
        /\ list'   = 1
        /\ step'   = "nvml"
        /\ listed' = now
        /\ ghosts' = ghosts \cup {SessionOf(d) : d \in {x \in keeps : x.gpu \notin uuids}}

\* _sample_gpu has a handle and asks for the uuid.
Identify ==
  /\ step = "gpu"
  /\ \/ uuid' = Gpu[list] /\ UNCHANGED faults
     \/ uuid' = NoUuid /\ Fault
  /\ step' = "count"
  /\ UNCHANGED <<nodeVars, interval, list, counted, raw, found, said, begun, named, cacheVars, read, steady>>

\* There is no handle: the sample has nothing of this GPU.
NoHandle ==
  /\ step = "gpu"
  /\ Fault
  /\ NextGpu(shown, named)
  /\ UNCHANGED <<interval, uuid, counted, raw, found, said, begun, named, shown, smi, smiDue, read, steady>>

\* Mutant of AfterList: the last list is not the last.
AfterLastList ==
  IF list = Calls \/ Gpu[list + 1] = Gpu[list]
  THEN step' = "count" /\ list' = list + 1
  ELSE step' = "detail" /\ list' = list

\* The two lists of a GPU are read before its processes are looked up.
AfterList ==
  IF list < Calls /\ Gpu[list + 1] = Gpu[list]
  THEN step' = "count" /\ list' = list + 1
  ELSE step' = "detail" /\ list' = list

InFull == IF steady /\ uuid = Gpu[list] THEN read \cup {list} ELSE read

\* _running_processes, its first call.
Count ==
  /\ step = "count"
  /\ IF PidsOn(list) = {}
     THEN AfterList /\ read' = InFull
     ELSE step' = "fill" /\ list' = list /\ read' = read
  /\ counted' = Cardinality(PidsOn(list))
  /\ UNCHANGED <<nodeVars, interval, uuid, raw, found, said, begun, named, cacheVars, steady, faults>>

\* Its second call, with room for as many as were counted.  When there are
\* more by now, NVML returns INSUFFICIENT_SIZE and the list passes for empty.
Fill ==
  LET fits == Cardinality(PidsOn(list)) <= counted IN
  /\ step = "fill"
  /\ raw'  = IF fits THEN raw \cup [gpu: {uuid}, pid: PidsOn(list), list: {list}] ELSE raw
  /\ read' = IF fits THEN InFull ELSE read
  /\ counted' = 0
  /\ AfterList
  /\ UNCHANGED <<nodeVars, interval, uuid, found, said, begun, named, cacheVars, steady, faults>>

\* Either call fails with any other code: the list passes for empty as well.
ListFails ==
  /\ step \in {"count", "fill"}
  /\ Fault
  /\ counted' = 0
  /\ AfterList
  /\ UNCHANGED <<nodeVars, interval, uuid, raw, found, said, begun, named, cacheVars, read, steady>>

\* _fill_process_detail looks up the start time again, and the later look
\* counts, in vain as it may be; parse_process_query_csv looks it up once.
Detail ==
  /\ step \in {"detail", "parse"}
  /\ \E e \in raw : \E start \in StartsOf(e.pid) :
       /\ raw'   = raw \ {e}
       /\ found' = found \cup {Detailed(e, start)}
  /\ UNCHANGED <<nodeVars, interval, step, list, uuid, counted, said, begun, named, cacheVars, read, steady, faults>>

\* Mutant of Kept: what a GPU showed before stays.
KeptToo == shown \cup found

\* What _process_snapshot is with the result for a GPU.
Kept == {d \in shown : d.gpu # uuid} \cup found

\* _sample_gpu keeps the result.
Commit ==
  /\ step = "detail"
  /\ raw = {}
  /\ shown' = Kept
  /\ said'  = said \cup found
  /\ named' = named \cup {uuid}
  /\ found' = {}
  /\ uuid'  = NoUuid
  /\ NextGpu(Kept, named \cup {uuid})
  /\ UNCHANGED <<interval, counted, raw, begun, smi, smiDue, read, steady, faults>>
----------------------------------------------------------------------------
(* nvidia-smi *)

\* Mutant of NvmlFails: the fallback's list is asked for once.
NvmlFailsReuses ==
  /\ step = "nvml" \/ (step = "gpu" /\ list = 1)
  /\ step'   = IF smiDue = 0 THEN "query" ELSE "reuse"
  /\ said'   = {}
  /\ shown'  = {}
  /\ listed' = Never
  /\ named'  = {}
  /\ NotSteady
  /\ UNCHANGED <<nodeVars, interval, list, uuid, counted, raw, found, begun, smi, smiDue, faults>>

\* _sample_once: the sampler raised an exception and is given up with its cache.
\* nvmlInit or nvmlDeviceGetCount fails before the first GPU; behind the last one
\* there is what Python can raise of the rest (socket.gethostname).
NvmlFails ==
  /\ step = "nvml" \/ (step = "gpu" /\ list = 1)
  /\ step'   = IF now >= smiDue THEN "query" ELSE "reuse"
  /\ said'   = {}
  /\ shown'  = {}
  /\ listed' = Never
  /\ named'  = {}
  /\ NotSteady
  /\ UNCHANGED <<nodeVars, interval, list, uuid, counted, raw, found, begun, smi, smiDue, faults>>

\* The GPUs could be queried, and so could the processes.
Query ==
  /\ step = "query"
  /\ step'   = "parse"
  /\ raw'    = OnLists(Lists \ Graphics)
  /\ steady' = TRUE
  /\ UNCHANGED <<nodeVars, interval, list, uuid, counted, found, said, begun, named, cacheVars, read, faults>>

Parsed ==
  /\ step = "parse"
  /\ raw = {}
  /\ step'   = "smi"
  /\ said'   = found
  /\ found'  = {}
  /\ smi'    = found
  /\ smiDue' = now + interval
  /\ UNCHANGED <<nodeVars, interval, list, uuid, counted, raw, begun, named, listed, shown, read, steady, faults>>

\* The query of the processes failed: the last ones it knew stand for them,
\* however old, until the next listing.
QueryFails ==
  /\ step = "query"
  /\ Fault
  /\ step'   = "smi"
  /\ said'   = smi
  /\ smiDue' = now + interval
  /\ ghosts' = ghosts \cup {SessionOf(d) : d \in smi}
  /\ UNCHANGED <<processVars, sampled, newest, interval, list, uuid, counted, raw, found, begun, named,
                 listed, shown, smi, read, steady>>

\* No listing is due.
Reuse ==
  /\ step = "reuse"
  /\ step'   = "smi"
  /\ said'   = smi
  /\ UNCHANGED <<nodeVars, interval, list, uuid, counted, raw, found, begun, named, cacheVars, read, steady, faults>>

\* Not even the GPUs could be queried: error_snapshot, without processes.
SmiFails ==
  /\ step \in {"query", "reuse"}
  /\ step'   = "smi"
  /\ UNCHANGED <<nodeVars, interval, sampleVars, cacheVars, read, steady, faults>>
----------------------------------------------------------------------------
(* The end of a sample, restarts and time *)

\* _publish.
Finish ==
  /\ step \in {"nvml", "smi"}
  /\ step'    = "idle"
  /\ said'    = {}
  /\ named'   = {}
  /\ sampled' = now
  /\ newest'  = said
  /\ UNCHANGED <<processVars, ghosts, interval, list, uuid, counted, raw, found, begun, cacheVars, read, steady, faults>>

\* The agent process ends and starts anew.  That is a turn without a sample, and
\* counts as one that says nothing, unless one was finished just now.
RestartAgent ==
  /\ Fault
  /\ step'    = "idle"
  /\ list'    = 1
  /\ uuid'    = NoUuid
  /\ counted' = 0
  /\ raw'     = {}
  /\ found'   = {}
  /\ said'    = {}
  /\ named'   = {}
  /\ listed'  = Never
  /\ shown'   = {}
  /\ smi'     = {}
  /\ smiDue'  = 0
  /\ sampled' = now
  /\ newest'  = IF now > sampled THEN {} ELSE newest
  /\ NotSteady
  /\ UNCHANGED <<processVars, ghosts, interval, begun>>

\* A sample is started within Refresh of the last one, and ends within Slow.
Tick ==
  /\ now < MaxTime
  /\ IF step = "idle" THEN now < sampled + Refresh ELSE now < begun + Slow
  /\ now' = now + 1
  /\ UNCHANGED <<life, died, sampled, newest, ghosts, interval, step, sampleVars, cacheVars, read, steady, faults>>

Next ==
  \/ \E p \in Procs : Come(p) \/ Go(p)
  \/ \E i \in Intervals : SetInterval(i)
  \/ BeginListing
  \/ \E uuids \in SUBSET Gpus : BeginCached(uuids)
  \/ Identify \/ NoHandle
  \/ Count \/ Fill \/ ListFails \/ Detail \/ Commit
  \/ NvmlFails \/ Query \/ Parsed \/ QueryFails \/ Reuse \/ SmiFails
  \/ Finish \/ RestartAgent
  \/ Tick

Spec == Init /\ [][Next]_vars
----------------------------------------------------------------------------
(* Properties *)

\* Every variable stays in its domain.
TypeOK ==
  /\ NodeTypeOK
  /\ interval \in Intervals
  /\ step \in Steps
  /\ list \in Lists
  /\ uuid \in Gpus
  /\ counted \in Nat
  /\ raw \subseteq Entries
  /\ found \subseteq Details
  /\ said \subseteq Details
  /\ begun \in Times
  /\ listed \in Times \cup {Never}
  /\ shown \subseteq Details
  /\ smi \subseteq Details
  /\ smiDue \in 0 .. MaxTime + Longest
  /\ named \subseteq Gpus
  /\ read \subseteq Lists
  /\ steady \in BOOLEAN
  /\ faults \in Nat

\* Through both caches, their cadences, changes of the interval, restarts and
\* lists that cannot be read, what a sample says of a process is not older than
\* Fresh.  The exception are ghosts, on a list that was put off unread: of a GPU
\* without a handle or a uuid when NVML's listing came to it, or of nvidia-smi
\* when its query of the processes failed.
ReportIsFresh == step \in {"nvml", "smi"} => said \subseteq Reportable

\* What the agent does to what is known of its node is what Sessions counts on
\* (NodeSpec): no sample before the last one's time or far behind it, and none
\* that says more than Reportable, whichever of its caches it was taken from.
KeepsPromise == NodeSpec

UseOf(x) == <<x.gpu, x.pid>>

\* Every use and no other, with a start time that /proc may tell of its pid now.
IsExactly(details, entries) ==
  /\ {UseOf(d) : d \in details} = {UseOf(e) : e \in entries}
  /\ \A d \in details : d.start \in StartsOf(d.pid)

\* After a listing during which no process came or went, and until one does, a
\* sample shows exactly the processes that run: of every GPU it has by its name
\* whose lists could be read, and in a sample of nvidia-smi of all.  Nothing of a
\* listing before it, of another GPU's or of one that NVML broke off is left in it.
SteadyListingIsExact ==
  steady =>
    /\ step = "nvml" =>
         \A g \in named \ {NoUuid} :
           LET lists == {l \in Lists : Gpu[l] = g} IN
           lists \subseteq read => IsExactly({d \in said : d.gpu = g}, OnLists(lists))
    /\ step = "smi" => IsExactly(said, OnLists(Lists \ Graphics))
=============================================================================
