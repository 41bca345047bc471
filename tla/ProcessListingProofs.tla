------------------------ MODULE ProcessListingProofs ------------------------
(***************************************************************************)
(* Theorems about ProcessListing, for every set of processes, lists and    *)
(* intervals and any number of failures: types, how old a sample's         *)
(* processes may be, and that what could be read of a listing during which *)
(* no process came or went is exact.                                       *)
(***************************************************************************)
EXTENDS ProcessListing, NodeProcessesProofs, FiniteSetTheorems

USE ListingAssumption, ProcessesAssumption

LEMMA PidsOnType ==
  ASSUME NEW l \in Lists
  PROVE  /\ PidsOn(l) \subseteq Pids
         /\ \A pid \in PidsOn(l) : \E p \in Procs : Alive(p) /\ Pid[p] = pid
         /\ Cardinality(PidsOn(l)) \in Nat
<1> DEFINE who == {p \in Procs : Alive(p) /\ l \in Uses[p]}
<1>1. PidsOn(l) = {Pid[p] : p \in who}
  BY DEF PidsOn
<1>2. PidsOn(l) \subseteq Pids /\ \A pid \in PidsOn(l) : \E p \in Procs : Alive(p) /\ Pid[p] = pid
  BY <1>1
<1>3. IsFiniteSet(who)
  BY FS_Subset
<1>4. IsFiniteSet(PidsOn(l))
  <2> HIDE DEF who
  <2>0. who \subseteq Procs
    BY DEF who
  <2> DEFINE fun == [p \in who |-> Pid[p]]
  <2>1. PidsOn(l) = {fun[p] : p \in who}
    BY <1>1
  <2>2. fun \in Surjection(who, PidsOn(l))
    <3>1. fun \in [who -> PidsOn(l)]
      BY <2>1
    <3>2. \A pid \in PidsOn(l) : \E p \in who : fun[p] = pid
      BY <2>1
    <3> QED BY <3>1, <3>2 DEF Surjection
  <2> QED BY <1>3, <2>2, FS_Surjection
<1>5. Cardinality(PidsOn(l)) \in Nat
  BY <1>4, FS_CardinalityType
<1> QED BY <1>2, <1>5

LEMMA OnListsType ==
  ASSUME NEW S \in SUBSET Lists
  PROVE  /\ OnLists(S) \subseteq Entries
         /\ \A e \in OnLists(S) : \E l \in S : e.gpu = Gpu[l] /\ e.pid \in PidsOn(l)
<1> SUFFICES ASSUME NEW e \in OnLists(S)
             PROVE  e \in Entries /\ \E l \in S : e.gpu = Gpu[l] /\ e.pid \in PidsOn(l)
  OBVIOUS
<1>1. PICK l \in S : e \in [gpu: {Gpu[l]}, pid: PidsOn(l), list: {l}]
  BY DEF OnLists
<1>2. e.gpu = Gpu[l] /\ e.pid \in PidsOn(l) /\ e.list = l /\ e = [gpu |-> e.gpu, pid |-> e.pid, list |-> e.list]
  BY <1>1
<1>3. Gpu[l] \in Gpus /\ PidsOn(l) \subseteq Pids
  BY PidsOnType
<1> QED BY <1>2, <1>3 DEF Entries

LEMMA StartsOfType ==
  ASSUME NEW pid, NEW start \in StartsOf(pid)
  PROVE  /\ start \in Starts
         /\ start # Unknown => start \in Procs /\ Alive(start) /\ Pid[start] = pid
         /\ start = Unknown => Holders(pid) \subseteq Unreadable
BY DEF StartsOf, Holders, Starts

LEMMA DetailedType ==
  ASSUME NEW e \in Entries, NEW start \in StartsOf(e.pid)
  PROVE  /\ Detailed(e, start) \in Details
         /\ Detailed(e, start).gpu = e.gpu
         /\ UseOf(Detailed(e, start)) = UseOf(e)
         /\ Detailed(e, start).start \in StartsOf(Detailed(e, start).pid)
<1>1. e.gpu \in Gpus /\ e.pid \in Pids
  BY DEF Entries
<1>2. start \in Starts
  BY StartsOfType
<1> QED BY <1>1, <1>2 DEF Detailed, Details, Entries, UseOf

\* Where NextGpu goes.
LEMMA NextGpuGoes ==
  ASSUME list \in Lists, NEW keeps, NEW uuids, NextGpu(keeps, uuids)
  PROVE  /\ UNCHANGED <<processVars, sampled, newest>>
         /\ list' \in Lists /\ step' \in {"gpu", "nvml"}
         /\ step' = "gpu" =>
              /\ list < list' /\ Gpu[list'] # Gpu[list]
              /\ \A l \in Lists : Gpu[l] = Gpu[list] => l < list'
              /\ \A l \in Lists : l < list' => Gpu[l] # Gpu[list']
              /\ UNCHANGED <<listed, ghosts>>
         /\ step' = "nvml" =>
              /\ list' = 1
              /\ listed' = now
              /\ ghosts' = ghosts \cup {SessionOf(d) : d \in {x \in keeps : x.gpu \notin uuids}}
<1> DEFINE ahead == {l \in Lists : list < l /\ Gpu[l] # Gpu[list]}
<1>0. 1 \in Lists /\ \A l \in Lists : l \in Int
  BY DEF Lists
<1>1. UNCHANGED <<processVars, sampled, newest>>
  BY DEF NextGpu
<1>2. \/ /\ list' \in ahead /\ \A i \in ahead : list' <= i
         /\ step' = "gpu"
         /\ UNCHANGED <<listed, ghosts>>
      \/ /\ list' = 1 /\ step' = "nvml" /\ listed' = now
         /\ ghosts' = ghosts \cup {SessionOf(d) : d \in {x \in keeps : x.gpu \notin uuids}}
  BY DEF NextGpu
<1>3. ASSUME list' \in ahead, \A i \in ahead : list' <= i
      PROVE  /\ list < list' /\ Gpu[list'] # Gpu[list] /\ list' \in Lists
             /\ \A l \in Lists : Gpu[l] = Gpu[list] => l < list'
             /\ \A l \in Lists : l < list' => Gpu[l] # Gpu[list']
  <2>0. \A i, j, l \in Lists : i <= j /\ j <= l /\ Gpu[i] = Gpu[l] => Gpu[j] = Gpu[i]
    OBVIOUS
  <2>1. list < list' /\ Gpu[list'] # Gpu[list] /\ list' \in Lists
    BY <1>3
  <2>2. ASSUME NEW l \in Lists, Gpu[l] = Gpu[list], ~(l < list') PROVE FALSE
    <3>1. list <= list' /\ list' <= l
      BY <1>0, <2>1, <2>2
    <3> QED BY <2>0, <2>1, <2>2, <3>1
  <2>3. ASSUME NEW l \in Lists, l < list', Gpu[l] = Gpu[list'] PROVE FALSE
    <3>1. CASE l <= list
      <4>1. list <= list'
        BY <1>0, <2>1
      <4> QED BY <2>0, <2>1, <2>3, <3>1, <4>1
    <3>2. CASE ~(l <= list)
      <4>1. l \in ahead
        BY <1>0, <2>1, <2>3, <3>2
      <4> QED BY <1>0, <1>3, <2>1, <2>3, <4>1
    <3> QED BY <3>1, <3>2
  <2> QED BY <2>1, <2>2, <2>3
<1> QED BY <1>0, <1>1, <1>2, <1>3

\* What a step of AfterList leaves.
LEMMA AfterListType ==
  ASSUME list \in Lists, AfterList
  PROVE  /\ list' \in Lists /\ step' \in {"count", "detail"} /\ Gpu[list'] = Gpu[list]
         /\ step' = "count"  => list' = list + 1 /\ list < Calls /\ Gpu[list + 1] = Gpu[list]
         /\ step' = "detail" => list' = list /\ (list # Calls => Gpu[list + 1] # Gpu[list])
<1>1. CASE list < Calls /\ Gpu[list + 1] = Gpu[list]
  BY <1>1 DEF AfterList, Lists
<1>2. CASE ~(list < Calls /\ Gpu[list + 1] = Gpu[list])
  <2>1. step' = "detail" /\ list' = list
    BY <1>2 DEF AfterList
  <2>2. list # Calls => list < Calls
    BY DEF Lists
  <2> QED BY <1>2, <2>1, <2>2
<1> QED BY <1>1, <1>2

LEMMA StepLives ==
  ASSUME TypeOK, [Next]_vars
  PROVE  Lives
<1>0. now \in Times /\ now \in Int
  BY DEF TypeOK, NodeTypeOK, Times
<1>1. ASSUME UNCHANGED processVars PROVE Lives
  BY <1>0, <1>1 DEF processVars, Lives
<1>2. CASE UNCHANGED vars
  BY <1>1, <1>2 DEF vars, nodeVars
<1>3. ASSUME NEW p \in Procs, Come(p) PROVE Lives
  <2>1. Start(p) /\ now' = now
    BY <1>3 DEF Come, Start
  <2> QED BY <1>0, <2>1 DEF Lives
<1>4. ASSUME NEW p \in Procs, Go(p) PROVE Lives
  <2>1. Exit(p) /\ now' = now
    BY <1>4 DEF Go, Exit
  <2> QED BY <1>0, <2>1 DEF Lives
<1>5. CASE Tick
  BY <1>0, <1>5 DEF Tick, Lives, Times
<1>6. ASSUME NEW i \in Intervals, SetInterval(i) PROVE Lives
  BY <1>1, <1>6 DEF SetInterval, nodeVars
<1>7. ASSUME NEW uuids \in SUBSET Gpus, BeginCached(uuids) PROVE Lives
  BY <1>1, <1>7 DEF BeginCached, nodeVars
<1>8. CASE BeginListing \/ Identify \/ Count \/ Fill \/ ListFails \/ Detail
  BY <1>1, <1>8 DEF BeginListing, Identify, Count, Fill, ListFails, Detail, nodeVars
<1>9. CASE NoHandle \/ Commit
  BY <1>1, <1>9 DEF NoHandle, Commit, NextGpu
<1>10. CASE NvmlFails \/ Query \/ Parsed \/ QueryFails \/ Reuse \/ SmiFails \/ Finish \/ RestartAgent
  BY <1>1, <1>10 DEF NvmlFails, Query, Parsed, QueryFails, Reuse, SmiFails, Finish, RestartAgent, nodeVars
<1> QED BY <1>2, <1>3, <1>4, <1>5, <1>6, <1>7, <1>8, <1>9, <1>10 DEF Next
----------------------------------------------------------------------------
(* Types *)

LEMMA TypeHolds == Spec => []TypeOK
<1>1. Init => TypeOK
  <2>1. Init => NodeTypeOK
    BY DEF Init, NodeInit, NodeTypeOK, Times
  <2>2. 1 \in Lists /\ 0 \in Times /\ 0 \in 0 .. MaxTime + Longest
    BY DEF Lists, Times
  <2>3. Init => /\ interval \in Intervals /\ step \in Steps /\ list \in Lists /\ uuid \in Gpus
                /\ counted \in Nat /\ raw \subseteq Entries /\ found \subseteq Details
                /\ said \subseteq Details /\ begun \in Times
    BY <2>2 DEF Init, Steps
  <2>4. Init => /\ listed \in Times \cup {Never} /\ shown \subseteq Details /\ smi \subseteq Details
                /\ smiDue \in 0 .. MaxTime + Longest /\ named \subseteq Gpus /\ read \subseteq Lists
                /\ steady \in BOOLEAN /\ faults \in Nat
    BY <2>2 DEF Init
  <2> QED BY <2>1, <2>3, <2>4 DEF TypeOK
<1>2. ASSUME TypeOK, [Next]_vars PROVE TypeOK'
  <2> USE DEF TypeOK
  <2>0. /\ now \in Times /\ now + Longest \in Nat /\ interval \in 1 .. Longest
        /\ \A i \in Intervals : now + i \in 0 .. MaxTime + Longest
        /\ 1 \in Lists /\ Gpu[list] \in Gpus /\ 0 \in 0 .. MaxTime + Longest
    BY <1>2 DEF NodeTypeOK, Times, Lists
  <2>a. Fault => faults' \in Nat
    BY <1>2 DEF Fault
  <2>b. ASSUME UNCHANGED nodeVars PROVE NodeTypeOK'
    BY <1>2, <2>b DEF nodeVars, processVars, NodeTypeOK
  <2>c. InFull \subseteq Lists
    BY <1>2 DEF InFull
  \* The ghosts of a listing are sessions of what was kept.
  <2>d. ASSUME NEW keeps \in SUBSET Details, NEW uuids, NextGpu(keeps, uuids)
        PROVE  NodeTypeOK' /\ list' \in Lists /\ step' \in Steps /\ listed' \in Times \cup {Never}
    <3>1. /\ UNCHANGED <<processVars, sampled, newest>> /\ list' \in Lists /\ step' \in Steps
          /\ listed' \in {listed, now}
          /\ ghosts' = ghosts \/ ghosts' = ghosts \cup {SessionOf(d) : d \in {x \in keeps : x.gpu \notin uuids}}
      <4>1. list \in Lists
        BY <1>2
      <4> QED BY <2>d, <4>1, NextGpuGoes DEF Steps
    <3>2. ghosts' \subseteq Keys
      BY <1>2, <2>d, <3>1, SessionInKeys DEF NodeTypeOK
    <3> QED BY <1>2, <2>0, <3>1, <3>2 DEF processVars, NodeTypeOK
  <2>1. CASE UNCHANGED vars
    BY <1>2, <2>1, <2>b DEF vars, sampleVars, cacheVars
  <2>2. ASSUME NEW p \in Procs, Come(p) \/ Go(p) PROVE TypeOK'
    <3>1. /\ UNCHANGED <<sampled, newest, ghosts>> /\ steady' = FALSE /\ read' = {}
          /\ UNCHANGED <<interval, step, sampleVars, cacheVars, faults>>
      BY <2>2 DEF Come, Go, Start, Exit, NotSteady
    <3> QED BY <1>2, <3>1, StepLives, NodeTypeKept DEF sampleVars, cacheVars
  <2>3. ASSUME NEW i \in Intervals, SetInterval(i) PROVE TypeOK'
    BY <1>2, <2>3, <2>a, <2>b DEF SetInterval, sampleVars, cacheVars
  <2>4. CASE BeginListing
    BY <1>2, <2>0, <2>4, <2>b DEF BeginListing, cacheVars, Steps
  <2>5. ASSUME NEW uuids \in SUBSET Gpus, BeginCached(uuids) PROVE TypeOK'
    <3>1. faults' \in Nat
      BY <1>2, <2>5, <2>a DEF BeginCached
    <3>2. said' \subseteq Details /\ named' \subseteq Gpus /\ begun' \in Times /\ step' \in Steps
      BY <1>2, <2>0, <2>5 DEF BeginCached, Steps
    <3> QED BY <1>2, <2>5, <2>b, <3>1, <3>2 DEF BeginCached, cacheVars
  <2>6. CASE Identify
    <3>1. uuid' \in Gpus /\ faults' \in Nat
      BY <1>2, <2>0, <2>6, <2>a DEF Identify
    <3> QED BY <1>2, <2>6, <2>b, <3>1 DEF Identify, cacheVars, Steps
  <2>7. CASE NoHandle
    BY <1>2, <2>7, <2>a, <2>d DEF NoHandle
  <2>8. CASE Count
    <3>1. list' \in Lists /\ step' \in Steps /\ read' \subseteq Lists
      BY <1>2, <2>8, <2>c, AfterListType DEF Count, Steps
    <3> QED BY <1>2, <2>8, <2>b, <3>1, PidsOnType DEF Count, cacheVars
  <2>9. CASE Fill
    <3>1. list' \in Lists /\ step' \in Steps /\ read' \subseteq Lists
      BY <1>2, <2>9, <2>c, AfterListType DEF Fill, Steps
    <3>2. raw' \subseteq Entries
      BY <1>2, <2>9, PidsOnType DEF Fill, Entries
    <3> QED BY <1>2, <2>9, <2>b, <3>1, <3>2 DEF Fill, cacheVars
  <2>10. CASE ListFails
    <3>1. list' \in Lists /\ step' \in Steps
      BY <1>2, <2>10, AfterListType DEF ListFails, Steps
    <3> QED BY <1>2, <2>10, <2>a, <2>b, <3>1 DEF ListFails, cacheVars
  <2>11. CASE Detail
    <3>1. raw' \subseteq Entries /\ found' \subseteq Details
      BY <1>2, <2>11, DetailedType DEF Detail
    <3> QED BY <1>2, <2>11, <2>b, <3>1 DEF Detail, cacheVars
  <2>12. CASE Commit
    <3>1. Kept \subseteq Details
      BY <1>2 DEF Kept
    <3>2. said' \subseteq Details /\ named' \subseteq Gpus /\ uuid' \in Gpus
      BY <1>2, <2>12 DEF Commit
    <3> QED BY <1>2, <2>12, <2>d, <3>1, <3>2 DEF Commit
  <2>13. CASE NvmlFails
    BY <1>2, <2>0, <2>13, <2>b DEF NvmlFails, NotSteady, Steps
  <2>14. CASE Query
    <3>1. raw' \subseteq Entries
      BY <2>14, OnListsType DEF Query
    <3> QED BY <1>2, <2>14, <2>b, <3>1 DEF Query, cacheVars, Steps
  <2>15. CASE Parsed
    BY <1>2, <2>0, <2>15, <2>b DEF Parsed, Steps
  <2>16. CASE QueryFails
    <3>1. ghosts' \subseteq Keys
      BY <1>2, <2>16, SessionInKeys DEF QueryFails, NodeTypeOK
    <3>2. NodeTypeOK'
      BY <1>2, <2>16, <3>1 DEF QueryFails, processVars, NodeTypeOK
    <3> QED BY <1>2, <2>0, <2>16, <2>a, <3>2 DEF QueryFails, Steps
  <2>17. CASE Reuse
    BY <1>2, <2>17, <2>b DEF Reuse, cacheVars, Steps
  <2>18. CASE SmiFails
    BY <1>2, <2>18, <2>b DEF SmiFails, sampleVars, cacheVars, Steps
  <2>19. CASE Finish \/ RestartAgent
    <3>1. newest' \subseteq Details
      BY <1>2, <2>19 DEF Finish, RestartAgent, NodeTypeOK
    <3>2. sampled' = now /\ UNCHANGED <<now, life, died, ghosts>>
      BY <2>19 DEF Finish, RestartAgent, processVars
    <3>3. NodeTypeOK'
      BY <1>2, <3>1, <3>2 DEF NodeTypeOK
    <3>4. CASE Finish
      BY <1>2, <3>3, <3>4 DEF Finish, cacheVars, Steps
    <3>5. CASE RestartAgent
      <4>1. faults' \in Nat /\ begun' \in Times /\ interval' \in Intervals
        BY <1>2, <2>a, <3>5 DEF RestartAgent
      <4> QED BY <1>2, <2>0, <3>3, <3>5, <4>1 DEF RestartAgent, NotSteady, Steps
    <3> QED BY <2>19, <3>4, <3>5
  <2>20. CASE Tick
    <3>1. now' \in Times
      BY <1>2, <2>20 DEF Tick, NodeTypeOK, Times
    <3> QED BY <1>2, <2>20, <3>1 DEF Tick, sampleVars, cacheVars, NodeTypeOK
  <2> QED BY <1>2, <2>1, <2>2, <2>3, <2>4, <2>5, <2>6, <2>7, <2>8, <2>9, <2>10, <2>11, <2>12, <2>13,
             <2>14, <2>15, <2>16, <2>17, <2>18, <2>19, <2>20 DEF Next
<1> QED BY <1>1, <1>2, PTL DEF Spec

\* Every variable stays in its domain (TypeOK).
THEOREM TypeCorrect == Spec => []TypeOK
BY TypeHolds
----------------------------------------------------------------------------
(* Where a sample is, and what it has by then *)

Listing == {"gpu", "count", "fill", "detail"}
AtGpu   == {"count", "fill", "detail"}
InSmi   == {"query", "reuse", "parse", "smi"}

Placed ==
  /\ raw # {} => step \in {"count", "fill", "detail", "parse"}
  /\ found # {} => step \in {"detail", "parse"}
  /\ step = "detail" /\ list # Calls => Gpu[list + 1] # Gpu[list]
  /\ step = "gpu" => \A l \in Lists : l < list => Gpu[l] # Gpu[list]
  /\ step \notin Listing => list = 1
  /\ step \in AtGpu =>
       /\ uuid \in {Gpu[list], NoUuid}
       /\ \A e \in raw : e.gpu = uuid
       /\ \A d \in found : d.gpu = uuid
  /\ step \in InSmi => shown = {}
  /\ step \in {"idle", "query", "reuse", "parse"} => said = {}
  /\ step = "idle" \/ step \in InSmi => named = {}

\* The steps at a GPU's lists, at most one further.
LEMMA PlacedAtList ==
  ASSUME TypeOK, Placed, step \in {"count", "fill"}, AfterList,
         UNCHANGED <<uuid, found, said, shown, named>>,
         \A e \in raw' : e.gpu = uuid
  PROVE  Placed'
<1>0. list \in Lists
  BY DEF TypeOK
<1>1. /\ step' \in {"count", "detail"} /\ Gpu[list'] = Gpu[list]
      /\ step' = "detail" /\ list' # Calls => Gpu[list' + 1] # Gpu[list']
  BY <1>0, AfterListType
<1>2. uuid' \in {Gpu[list'], NoUuid} /\ found' = {}
  BY <1>1 DEF Placed, AtGpu
<1> QED BY <1>1, <1>2 DEF Placed, Listing, AtGpu, InSmi

LEMMA PlacedKept ==
  ASSUME TypeOK, Placed, [Next]_vars
  PROVE  Placed'
<1>0. list \in Lists /\ 1 \in Lists /\ Calls \in Nat
  BY DEF TypeOK, Lists
<1> DEFINE Same == UNCHANGED <<step, list, uuid, raw, found, said, shown, named>>
<1>a. ASSUME Same PROVE Placed'
  BY <1>a DEF Placed
<1>1. CASE UNCHANGED vars
  BY <1>a, <1>1 DEF vars, sampleVars, cacheVars
<1>2. ASSUME NEW p \in Procs, Come(p) \/ Go(p) PROVE Placed'
  BY <1>a, <1>2 DEF Come, Go, sampleVars, cacheVars
<1>3. ASSUME NEW i \in Intervals, SetInterval(i) PROVE Placed'
  BY <1>a, <1>3 DEF SetInterval, sampleVars, cacheVars
<1>4. CASE Tick
  BY <1>a, <1>4 DEF Tick, sampleVars, cacheVars
<1>5. CASE BeginListing
  <2>1. /\ step = "idle" /\ step' = "gpu" /\ UNCHANGED <<list, uuid, raw, found, said, shown, named>>
    BY <1>5 DEF BeginListing, cacheVars
  <2>2. list = 1 /\ \A l \in Lists : ~(l < 1)
    BY <2>1 DEF Placed, Listing, Lists
  <2> QED BY <2>1, <2>2 DEF Placed, Listing, AtGpu, InSmi
<1>6. ASSUME NEW uuids \in SUBSET Gpus, BeginCached(uuids) PROVE Placed'
  <2>1. step = "idle" /\ step' = "nvml" /\ UNCHANGED <<list, raw, found, shown>>
    BY <1>6 DEF BeginCached, cacheVars
  <2> QED BY <2>1 DEF Placed, Listing, AtGpu, InSmi
<1>7. CASE Identify
  <2>1. /\ step = "gpu" /\ step' = "count" /\ UNCHANGED <<list, raw, found, said, shown, named>>
        /\ uuid' \in {Gpu[list], NoUuid}
    BY <1>7 DEF Identify, cacheVars
  <2>2. raw = {} /\ found = {}
    BY <2>1 DEF Placed
  <2> QED BY <2>1, <2>2 DEF Placed, Listing, AtGpu, InSmi
<1>8. CASE NoHandle
  <2>1. step = "gpu" /\ UNCHANGED <<raw, found, said, shown, named>>
    BY <1>8 DEF NoHandle
  <2>2. /\ step' \in {"gpu", "nvml"}
        /\ step' = "gpu" => \A l \in Lists : l < list' => Gpu[l] # Gpu[list']
        /\ step' = "nvml" => list' = 1
    BY <1>0, <1>8, NextGpuGoes DEF NoHandle
  <2> QED BY <2>1, <2>2 DEF Placed, Listing, AtGpu, InSmi
<1>9. CASE Count
  <2>1. step = "count" /\ UNCHANGED <<uuid, raw, found, said, shown, named>>
    BY <1>9 DEF Count, cacheVars
  <2>2. \A e \in raw' : e.gpu = uuid
    BY <2>1 DEF Placed, AtGpu
  <2>3. CASE AfterList
    BY <2>1, <2>2, <2>3, PlacedAtList
  <2>4. CASE step' = "fill" /\ list' = list
    BY <2>1, <2>4 DEF Placed, Listing, AtGpu, InSmi
  <2> QED BY <1>9, <2>3, <2>4 DEF Count
<1>10. CASE Fill
  <2>1. step = "fill" /\ AfterList /\ UNCHANGED <<uuid, found, said, shown, named>>
    BY <1>10 DEF Fill, cacheVars
  <2>2. \A e \in raw' : e.gpu = uuid
    BY <1>10, <2>1 DEF Fill, Placed, AtGpu
  <2> QED BY <2>1, <2>2, PlacedAtList
<1>11. CASE ListFails
  <2>1. step \in {"count", "fill"} /\ AfterList /\ UNCHANGED <<uuid, raw, found, said, shown, named>>
    BY <1>11 DEF ListFails, cacheVars
  <2>2. \A e \in raw' : e.gpu = uuid
    BY <2>1 DEF Placed, AtGpu
  <2> QED BY <2>1, <2>2, PlacedAtList
<1>12. CASE Detail
  <2>0. PICK e \in raw : \E start \in StartsOf(e.pid) :
                raw' = raw \ {e} /\ found' = found \cup {Detailed(e, start)}
    BY <1>12 DEF Detail
  <2>1. PICK start \in StartsOf(e.pid) : raw' = raw \ {e} /\ found' = found \cup {Detailed(e, start)}
    BY <2>0
  <2>2. Detailed(e, start).gpu = e.gpu
    BY <2>1, DetailedType DEF TypeOK
  <2>3. step \in {"detail", "parse"} /\ UNCHANGED <<step, list, uuid, said, shown, named>>
    BY <1>12 DEF Detail, cacheVars
  <2>4. step \in AtGpu => (\A f \in raw' : f.gpu = uuid) /\ \A d \in found' : d.gpu = uuid
    BY <2>1, <2>2 DEF Placed
  <2> QED BY <2>3, <2>4 DEF Placed
<1>13. CASE Commit
  <2>1. raw' = {} /\ found' = {}
    BY <1>13 DEF Commit
  <2>2. /\ step' \in {"gpu", "nvml"}
        /\ step' = "gpu" => \A l \in Lists : l < list' => Gpu[l] # Gpu[list']
        /\ step' = "nvml" => list' = 1
    BY <1>0, <1>13, NextGpuGoes DEF Commit
  <2> QED BY <2>1, <2>2 DEF Placed, Listing, AtGpu, InSmi
<1>14. CASE NvmlFails
  <2>1. /\ step' \in {"query", "reuse"} /\ UNCHANGED <<list, raw, found>>
        /\ said' = {} /\ shown' = {} /\ named' = {}
    BY <1>14 DEF NvmlFails
  <2>2. raw = {} /\ found = {} /\ list = 1
    BY <1>14 DEF NvmlFails, Placed, Listing
  <2> QED BY <2>1, <2>2 DEF Placed, Listing, AtGpu, InSmi
<1>15. CASE Query \/ Parsed
  <2>1. step \in {"query", "parse"} /\ step' \in {"parse", "smi"} /\ UNCHANGED <<list, named, shown>>
    BY <1>15 DEF Query, Parsed, cacheVars
  <2>2. /\ step' = "smi" => raw' = {} /\ found' = {}
        /\ step' = "parse" => said' = {}
    BY <1>15 DEF Query, Parsed, Placed
  <2> QED BY <2>1, <2>2 DEF Placed, Listing, AtGpu, InSmi
<1>16. CASE QueryFails \/ Reuse \/ SmiFails
  <2>1. step \in {"query", "reuse"} /\ step' = "smi" /\ UNCHANGED <<list, named, shown, raw, found>>
    BY <1>16 DEF QueryFails, Reuse, SmiFails, cacheVars, sampleVars
  <2> QED BY <2>1 DEF Placed, Listing, AtGpu, InSmi
<1>17. CASE Finish
  <2>1. /\ step \in {"nvml", "smi"} /\ step' = "idle" /\ said' = {} /\ named' = {}
        /\ UNCHANGED <<list, raw, found>>
    BY <1>17 DEF Finish
  <2> QED BY <2>1 DEF Placed, Listing, AtGpu, InSmi
<1>18. CASE RestartAgent
  <2>1. step' = "idle" /\ said' = {} /\ named' = {} /\ list' = 1 /\ raw' = {} /\ found' = {}
    BY <1>18 DEF RestartAgent
  <2> QED BY <2>1 DEF Placed, Listing, AtGpu, InSmi
<1> QED BY <1>1, <1>2, <1>3, <1>4, <1>5, <1>6, <1>7, <1>8, <1>9, <1>10, <1>11, <1>12, <1>13, <1>14,
           <1>15, <1>16, <1>17, <1>18 DEF Next

\* A sample under way was begun at most Slow ago.
Paced ==
  /\ begun <= now
  /\ step # "idle" => now <= begun + Slow
  /\ listed <= now
  /\ smiDue <= now + Longest

LEMMA PacedKept ==
  ASSUME TypeOK, Paced, [Next]_vars
  PROVE  Paced'
<1> USE DEF Paced
<1>0. /\ now \in Int /\ now >= 0 /\ begun \in Int /\ listed \in Int /\ smiDue \in Int
      /\ Slow \in Nat /\ Longest \in Nat
      /\ interval \in 1 .. Longest
      /\ list \in Lists
  BY DEF TypeOK, NodeTypeOK, Times, Never
<1>a. ASSUME UNCHANGED <<now, begun, smiDue>>, listed' \in {listed, now, -1},
             step # "idle" \/ step' = "idle"
      PROVE  Paced'
  BY <1>0, <1>a
<1>1. CASE UNCHANGED vars
  BY <1>1 DEF vars, nodeVars, processVars, sampleVars, cacheVars
<1>2. ASSUME NEW p \in Procs, Come(p) \/ Go(p) PROVE Paced'
  BY <1>2 DEF Come, Go, Start, Exit, sampleVars, cacheVars
<1>3. ASSUME NEW i \in Intervals, SetInterval(i) PROVE Paced'
  BY <1>3 DEF SetInterval, nodeVars, processVars, sampleVars, cacheVars
<1>4. CASE Tick
  <2>1. now' = now + 1 /\ UNCHANGED <<begun, listed, smiDue, step>> /\ (step # "idle" => now < begun + Slow)
    BY <1>4 DEF Tick, sampleVars, cacheVars
  <2> QED BY <1>0, <2>1
<1>5. CASE BeginListing
  <2>1. UNCHANGED <<now, listed, smiDue>> /\ begun' = now
    BY <1>5 DEF BeginListing, nodeVars, processVars, cacheVars
  <2> QED BY <1>0, <2>1
<1>6. ASSUME NEW uuids \in SUBSET Gpus, BeginCached(uuids) PROVE Paced'
  <2>1. UNCHANGED <<now, listed, smiDue>> /\ begun' = now
    BY <1>6 DEF BeginCached, nodeVars, processVars, cacheVars
  <2> QED BY <1>0, <2>1
<1>7. CASE Identify \/ Count \/ Fill \/ ListFails \/ Detail
  <2>1. step # "idle" /\ UNCHANGED <<now, begun, listed, smiDue>>
    BY <1>7 DEF Identify, Count, Fill, ListFails, Detail, nodeVars, processVars, cacheVars
  <2> QED BY <1>a, <2>1
<1>8. CASE NoHandle \/ Commit
  <2>1. step # "idle" /\ UNCHANGED <<begun, smiDue>>
    BY <1>8 DEF NoHandle, Commit
  <2>2. now' = now /\ listed' \in {listed, now}
    BY <1>0, <1>8, NextGpuGoes DEF NoHandle, Commit, processVars
  <2> QED BY <1>a, <2>1, <2>2
<1>9. CASE NvmlFails
  <2>1. step # "idle" /\ UNCHANGED <<now, begun, smiDue>> /\ listed' = -1
    BY <1>9 DEF NvmlFails, nodeVars, processVars, Never
  <2> QED BY <1>a, <2>1
<1>10. CASE Query \/ Reuse \/ SmiFails
  <2>1. step # "idle" /\ UNCHANGED <<now, begun, listed, smiDue>>
    BY <1>10 DEF Query, Reuse, SmiFails, nodeVars, processVars, sampleVars, cacheVars
  <2> QED BY <1>a, <2>1
<1>11. CASE Parsed \/ QueryFails
  <2>1. step # "idle" /\ UNCHANGED <<now, begun, listed>> /\ smiDue' = now + interval
    BY <1>11 DEF Parsed, QueryFails, nodeVars, processVars
  <2> QED BY <1>0, <2>1
<1>12. CASE Finish
  <2>1. step' = "idle" /\ UNCHANGED <<now, begun, listed, smiDue>>
    BY <1>12 DEF Finish, processVars, cacheVars
  <2> QED BY <1>a, <2>1
<1>13. CASE RestartAgent
  <2>1. step' = "idle" /\ UNCHANGED <<now, begun>> /\ listed' = -1 /\ smiDue' = 0
    BY <1>13 DEF RestartAgent, processVars, Never
  <2> QED BY <1>0, <2>1
<1> QED BY <1>1, <1>2, <1>3, <1>4, <1>5, <1>6, <1>7, <1>8, <1>9, <1>10, <1>11, <1>12, <1>13 DEF Next
----------------------------------------------------------------------------
(* How old a sample's processes may be *)

Since(d, at) == AliveSince(SessionOf(d), at) /\ MayBeNameless(d)
Old(d, at)   == (AliveSince(SessionOf(d), at) \/ SessionOf(d) \in ghosts) /\ MayBeNameless(d)

\* What the listing under way has seen, and what it has of the GPUs it is done with.
UnderWay ==
  /\ \A e \in raw : AliveSince(<<e.pid, Unknown>>, begun)
  /\ \A d \in found : Since(d, begun)
  /\ step \in Listing =>
       /\ \A d \in said : Since(d, begun)
       /\ \A d \in shown : d.gpu \in named => Since(d, begun)

\* What is kept of earlier listings, and what a sample makes of it.
Aged ==
  /\ \A d \in shown : Old(d, listed - Slow)
  /\ \A d \in smi : Old(d, smiDue - Longest - Slow)
  /\ step = "reuse" => begun < smiDue
  /\ step \in {"nvml", "smi"} => \A d \in said : Old(d, begun - Longest - Slow)

LEMMA GhostsGrow ==
  ASSUME [Next]_vars
  PROVE  ghosts \subseteq ghosts'
<1>1. CASE NoHandle \/ Commit
  BY <1>1 DEF NoHandle, Commit, NextGpu
<1>2. CASE ~(NoHandle \/ Commit)
  BY <1>2 DEF Next, vars, Come, Go, Start, Exit, SetInterval, BeginListing, BeginCached, Identify, Count, Fill,
              ListFails, Detail, NvmlFails, Query, Parsed, QueryFails, Reuse, SmiFails, Finish, RestartAgent,
              Tick, nodeVars
<1> QED BY <1>1, <1>2

\* What is known of a session stays known, whatever the step.
LEMMA KnownKept ==
  ASSUME TypeOK, [Next]_vars
  PROVE  /\ \A k, at : at \in Int /\ at <= now /\ AliveSince(k, at) => AliveSince(k, at)'
         /\ \A d, at : at \in Int /\ at <= now /\ Since(d, at) => Since(d, at)'
         /\ \A d, at : at \in Int /\ at <= now /\ Old(d, at) => Old(d, at)'
         /\ \A d : MayBeNameless(d) => MayBeNameless(d)'
<1>1. Lives /\ NodeTypeOK
  BY StepLives DEF TypeOK
<1>2. ASSUME NEW k, NEW at \in Int, at <= now, AliveSince(k, at) PROVE AliveSince(k, at)'
  BY <1>1, <1>2, AliveSinceKept
<1>3. ASSUME NEW d, MayBeNameless(d) PROVE MayBeNameless(d)'
  BY <1>1, <1>3, NamelessKept
<1>4. ASSUME NEW d, NEW at \in Int, at <= now, Since(d, at) PROVE Since(d, at)'
  BY <1>2, <1>3, <1>4 DEF Since, SessionOf
<1>5. ASSUME NEW d, NEW at \in Int, at <= now, Old(d, at) PROVE Old(d, at)'
  BY <1>2, <1>3, <1>5, GhostsGrow DEF Old, SessionOf
<1> QED BY <1>2, <1>3, <1>4, <1>5

\* The same within a state.
LEMMA KnownEarlier ==
  ASSUME NodeTypeOK
  PROVE  /\ \A d, at, from : at \in Int /\ from \in Int /\ from <= at /\ Since(d, at) => Since(d, from)
         /\ \A d, at, from : at \in Int /\ from \in Int /\ from <= at /\ Old(d, at) => Old(d, from)
         /\ \A d, at : Since(d, at) => Old(d, at)
<1>1. ASSUME NEW k, NEW at \in Int, NEW from \in Int, from <= at, AliveSince(k, at) PROVE AliveSince(k, from)
  BY <1>1, AliveSinceEarlier
<1> QED BY <1>1 DEF Since, Old

\* A process that is on a list is alive.
LEMMA ListedIsAlive ==
  ASSUME NEW l \in Lists, NEW pid \in PidsOn(l), NEW at
  PROVE  AliveSince(<<pid, Unknown>>, at)
<1>1. PICK p \in Procs : Alive(p) /\ Pid[p] = pid
  BY PidsOnType
<1>2. p \in Candidates(<<pid, Unknown>>)
  BY <1>1 DEF Candidates
<1> QED BY <1>1, <1>2 DEF AliveSince

\* When its details are read it is found alive, or without a start time: then it
\* has ended since, or is one whose start time need not be told.
LEMMA DetailedIsKnown ==
  ASSUME TypeOK, NEW e \in Entries, NEW at \in Int, AliveSince(<<e.pid, Unknown>>, at),
         NEW start \in StartsOf(e.pid)
  PROVE  Since(Detailed(e, start), at)
<1> DEFINE d == Detailed(e, start)
<1>1. d.pid = e.pid /\ d.start = start /\ SessionOf(d) = <<e.pid, start>>
  BY DEF Detailed, SessionOf
<1>2. CASE start # Unknown
  <2>1. start \in Procs /\ Alive(start) /\ Pid[start] = e.pid
    BY <1>2, StartsOfType
  <2>2. start \in Candidates(SessionOf(d))
    BY <1>1, <2>1 DEF Candidates
  <2>3. AliveSince(SessionOf(d), at)
    BY <2>1, <2>2 DEF AliveSince
  <2>4. MayBeNameless(d)
    BY <1>1, <1>2 DEF MayBeNameless
  <2> QED BY <2>3, <2>4 DEF Since
<1>3. CASE start = Unknown
  <2>1. Holders(e.pid) \subseteq Unreadable
    BY <1>3, StartsOfType
  <2>2. PICK p \in Candidates(<<e.pid, Unknown>>) : Alive(p) \/ (life[p] = "gone" /\ died[p] >= at)
    BY DEF AliveSince
  <2>3. p \in Procs /\ Pid[p] = e.pid
    BY <2>2 DEF Candidates
  <2>4. life[p] = "gone" \/ p \in Unreadable
    BY <2>1, <2>2, <2>3 DEF Holders
  <2>5. MayBeNameless(d)
    BY <1>1, <2>3, <2>4 DEF MayBeNameless
  <2> QED BY <1>1, <1>3, <2>5 DEF Since
<1> QED BY <1>2, <1>3

LEMMA UnderWayKept ==
  ASSUME TypeOK, Placed, Paced, UnderWay, [Next]_vars
  PROVE  UnderWay'
<1> DEFINE KeptBefore == begun' = begun =>
             /\ \A k : AliveSince(k, begun) => AliveSince(k, begun)'
             /\ \A d : Since(d, begun) => Since(d, begun)'
<1>0. /\ now \in Int /\ begun \in Int /\ begun <= now /\ list \in Lists
      /\ raw \subseteq Entries
  BY DEF TypeOK, NodeTypeOK, Times, Paced
<1>a. KeptBefore
  BY <1>0, KnownKept
<1> HIDE DEF KeptBefore
\* A step that leaves what it has, and what it still asks about.
<1>b. ASSUME UNCHANGED <<begun, raw, found, said, shown, named>>, step' \in Listing => step \in Listing
      PROVE  UnderWay'
  BY <1>a, <1>b DEF KeptBefore, UnderWay
<1>1. CASE UNCHANGED vars
  BY <1>b, <1>1 DEF vars, sampleVars, cacheVars
<1>2. ASSUME NEW p \in Procs, Come(p) \/ Go(p) PROVE UnderWay'
  BY <1>b, <1>2 DEF Come, Go, sampleVars, cacheVars
<1>3. ASSUME NEW i \in Intervals, SetInterval(i) PROVE UnderWay'
  BY <1>b, <1>3 DEF SetInterval, sampleVars, cacheVars
<1>4. CASE Tick
  BY <1>b, <1>4 DEF Tick, sampleVars, cacheVars
<1>5. CASE BeginListing
  <2>1. raw' = {} /\ found' = {} /\ said' = {} /\ named' = {}
    BY <1>5 DEF BeginListing, Placed
  <2> QED BY <2>1 DEF UnderWay
<1>6. ASSUME NEW uuids \in SUBSET Gpus, BeginCached(uuids) PROVE UnderWay'
  <2>1. raw' = {} /\ found' = {} /\ step' = "nvml"
    BY <1>6 DEF BeginCached, Placed
  <2> QED BY <2>1 DEF UnderWay, Listing
<1>7. CASE Identify \/ Count \/ ListFails
  <2>1. step \in Listing /\ UNCHANGED <<begun, raw, found, said, shown, named>>
    BY <1>7 DEF Identify, Count, ListFails, Listing, cacheVars
  <2> QED BY <1>b, <2>1
<1>8. CASE NoHandle
  <2>1. step \in Listing /\ UNCHANGED <<begun, raw, found, said, shown, named>>
    BY <1>8 DEF NoHandle, Listing
  <2> QED BY <1>b, <2>1
<1>9. CASE Fill
  <2>1. \A e \in raw' : AliveSince(<<e.pid, Unknown>>, begun)
    <3>1. raw' \subseteq raw \cup [gpu: {uuid}, pid: PidsOn(list), list: {list}]
      BY <1>9 DEF Fill
    <3> QED BY <1>0, <3>1, ListedIsAlive DEF UnderWay
  <2>2. step \in Listing /\ UNCHANGED <<begun, found, said, shown, named>>
    BY <1>9 DEF Fill, Listing, cacheVars
  <2> QED BY <1>a, <2>1, <2>2 DEF UnderWay, KeptBefore
<1>10. CASE Detail
  <2>0. PICK e \in raw : \E start \in StartsOf(e.pid) :
                raw' = raw \ {e} /\ found' = found \cup {Detailed(e, start)}
    BY <1>10 DEF Detail
  <2>1. PICK start \in StartsOf(e.pid) : raw' = raw \ {e} /\ found' = found \cup {Detailed(e, start)}
    BY <2>0
  <2>2. Since(Detailed(e, start), begun)
    BY <1>0, <2>1, DetailedIsKnown DEF UnderWay
  <2>3. \A d \in found' : Since(d, begun)
    BY <2>1, <2>2 DEF UnderWay
  <2>4. UNCHANGED <<begun, step, said, shown, named>>
    BY <1>10 DEF Detail, cacheVars
  <2> QED BY <1>a, <2>1, <2>3, <2>4 DEF UnderWay, KeptBefore
<1>11. CASE Commit
  <2>1. /\ raw' = {} /\ found' = {} /\ begun' = begun /\ step \in Listing
        /\ said' = said \cup found /\ named' = named \cup {uuid}
        /\ shown' = {d \in shown : d.gpu # uuid} \cup found
    BY <1>11 DEF Commit, Kept, Listing
  <2>2. \A d \in said' : Since(d, begun)
    BY <2>1 DEF UnderWay
  <2>3. \A d \in shown' : d.gpu \in named' => Since(d, begun)
    BY <2>1 DEF UnderWay
  <2> QED BY <1>a, <2>1, <2>2, <2>3 DEF UnderWay, KeptBefore
<1>12. CASE NvmlFails
  <2>1. step' \notin Listing /\ UNCHANGED <<begun, raw, found>>
    BY <1>12 DEF NvmlFails, Listing
  <2> QED BY <1>a, <2>1 DEF UnderWay, KeptBefore
<1>13. CASE Query
  <2>1. \A e \in raw' : AliveSince(<<e.pid, Unknown>>, begun)
    <3>1. raw' = OnLists(Lists \ Graphics)
      BY <1>13 DEF Query
    <3>2. \A e \in raw' : \E l \in Lists : e.pid \in PidsOn(l)
      BY <3>1, OnListsType
    <3> QED BY <3>2, ListedIsAlive
  <2>2. found' = {} /\ begun' = begun /\ step' = "parse"
    BY <1>13 DEF Query, Placed
  <2> QED BY <1>a, <2>1, <2>2 DEF UnderWay, KeptBefore, Listing
<1>14. CASE Parsed \/ QueryFails \/ Reuse \/ SmiFails
  <2>1. step' = "smi" /\ raw' = {} /\ found' = {}
    BY <1>14 DEF Parsed, QueryFails, Reuse, SmiFails, Placed, sampleVars
  <2> QED BY <2>1 DEF UnderWay, Listing
<1>15. CASE Finish \/ RestartAgent
  <2>1. step' = "idle" /\ raw' = {} /\ found' = {}
    BY <1>15 DEF Finish, RestartAgent, Placed
  <2> QED BY <2>1 DEF UnderWay, Listing
<1> QED BY <1>1, <1>2, <1>3, <1>4, <1>5, <1>6, <1>7, <1>8, <1>9, <1>10, <1>11, <1>12, <1>13, <1>14, <1>15 DEF Next

LEMMA AgedKept ==
  ASSUME TypeOK, Placed, Paced, UnderWay, Aged, [Next]_vars
  PROVE  Aged'
<1> DEFINE Cached(at) == at \in Int /\ at <= now =>
             /\ \A d : Since(d, at) => Since(d, at)'
             /\ \A d : Old(d, at) => Old(d, at)'
<1>0. /\ now \in Int /\ begun \in Int /\ begun <= now /\ listed \in Int /\ listed <= now
      /\ smiDue \in Int /\ smiDue <= now + Longest /\ interval \in 1 .. Longest
      /\ Longest \in Nat /\ Slow \in Nat
      /\ step # "idle" => now <= begun + Slow
      /\ list \in Lists
  BY DEF TypeOK, NodeTypeOK, Times, Paced, Never
<1>a. \A at : Cached(at)
  BY KnownKept
<1>e. /\ \A d, at, from : at \in Int /\ from \in Int /\ from <= at /\ Since(d, at) => Since(d, from)
      /\ \A d, at, from : at \in Int /\ from \in Int /\ from <= at /\ Old(d, at) => Old(d, from)
      /\ \A d, at : Since(d, at) => Old(d, at)
  BY KnownEarlier DEF TypeOK
<1> HIDE DEF Cached
\* The ages, which every step but the ones that set them keeps.
<1>s. ASSUME UNCHANGED <<smi, smiDue>> PROVE \A d \in smi' : Old(d, smiDue - Longest - Slow)'
  <2>1. smiDue - Longest - Slow \in Int /\ smiDue - Longest - Slow <= now
    BY <1>0
  <2> QED BY <1>a, <1>s, <2>1 DEF Cached, Aged
<1>n. ASSUME UNCHANGED <<shown, listed>> PROVE \A d \in shown' : Old(d, listed - Slow)'
  <2>1. listed - Slow \in Int /\ listed - Slow <= now
    BY <1>0
  <2> QED BY <1>a, <1>n, <2>1 DEF Cached, Aged
<1>b. begun - Longest - Slow \in Int /\ begun - Longest - Slow <= now
  BY <1>0
<1>c. ASSUME UNCHANGED <<step, said, begun, listed, shown, smi, smiDue>> PROVE Aged'
  BY <1>a, <1>b, <1>c, <1>n, <1>s DEF Cached, Aged
\* Behind a GPU.  Of a listing that ends, what was kept of GPUs it has not named
\* is of ghosts now.
<1>g. ASSUME NEW keeps, step # "idle", NextGpu(keeps, named'), shown' = keeps, UNCHANGED <<begun, smi, smiDue>>,
             \A d \in said' : Since(d, begun),
             \A d \in keeps : d.gpu \in named' => Since(d, begun),
             \A d \in keeps : Old(d, listed - Slow)
      PROVE  Aged'
  <2>1. /\ step' \in {"gpu", "nvml"}
        /\ step' = "gpu" => listed' = listed
        /\ step' = "nvml" => /\ listed' = now
                             /\ ghosts' = ghosts \cup {SessionOf(d) : d \in {x \in keeps : x.gpu \notin named'}}
    BY <1>0, <1>g, NextGpuGoes
  <2>2. step' = "nvml" => \A d \in said' : Old(d, begun - Longest - Slow)'
    <3>1. \A d \in said' : Old(d, begun - Longest - Slow)
      BY <1>0, <1>b, <1>e, <1>g
    <3> QED BY <1>a, <1>b, <1>g, <3>1 DEF Cached
  <2>3. CASE step' = "gpu"
    <3>1. listed - Slow \in Int /\ listed - Slow <= now
      BY <1>0
    <3>2. \A d \in shown' : Old(d, listed - Slow)'
      BY <1>a, <1>g, <2>1, <2>3, <3>1 DEF Cached
    <3> QED BY <1>s, <1>g, <2>3, <3>2 DEF Aged
  <2>4. CASE step' = "nvml"
    <3>2. ASSUME NEW d \in keeps, d.gpu \in named' PROVE Old(d, listed - Slow)'
      <4>1. now - Slow <= begun /\ now - Slow \in Int /\ now - Slow <= now
        BY <1>0, <1>g
      <4>2. Old(d, now - Slow)
        BY <1>0, <1>e, <1>g, <3>2, <4>1
      <4> QED BY <1>a, <2>1, <2>4, <4>1, <4>2 DEF Cached
    <3>3. ASSUME NEW d \in keeps, d.gpu \notin named' PROVE Old(d, listed - Slow)'
      <4>1. SessionOf(d) \in ghosts' /\ MayBeNameless(d)
        BY <1>g, <2>1, <2>4, <3>3 DEF Old
      <4>2. MayBeNameless(d)'
        BY <4>1, KnownKept
      <4> QED BY <4>1, <4>2 DEF Old, SessionOf
    <3>4. \A d \in shown' : Old(d, listed - Slow)'
      BY <1>g, <3>2, <3>3
    <3> QED BY <1>s, <1>g, <2>2, <2>4, <3>4 DEF Aged
  <2> QED BY <2>1, <2>3, <2>4
<1>1. CASE UNCHANGED vars
  BY <1>c, <1>1 DEF vars, sampleVars, cacheVars
<1>2. ASSUME NEW p \in Procs, Come(p) \/ Go(p) PROVE Aged'
  BY <1>c, <1>2 DEF Come, Go, sampleVars, cacheVars
<1>3. ASSUME NEW i \in Intervals, SetInterval(i) PROVE Aged'
  BY <1>c, <1>3 DEF SetInterval, sampleVars, cacheVars
<1>4. CASE Tick
  BY <1>c, <1>4 DEF Tick, sampleVars, cacheVars
<1>5. CASE BeginListing
  <2>1. UNCHANGED <<shown, listed, smi, smiDue>> /\ step' = "gpu"
    BY <1>5 DEF BeginListing, cacheVars
  <2> QED BY <1>n, <1>s, <2>1 DEF Aged
<1>6. ASSUME NEW uuids \in SUBSET Gpus, BeginCached(uuids) PROVE Aged'
  <2>1. /\ UNCHANGED <<shown, listed, smi, smiDue>> /\ begun' = now /\ step' = "nvml"
        /\ now < listed + interval /\ said' \subseteq shown
    BY <1>6 DEF BeginCached, cacheVars
  <2>2. ASSUME NEW d \in said' PROVE Old(d, begun - Longest - Slow)'
    <3>1. /\ now - Longest - Slow <= listed - Slow
          /\ now - Longest - Slow \in Int /\ listed - Slow \in Int
      BY <1>0, <2>1
    <3>2. Old(d, listed - Slow)
      BY <2>1, <2>2 DEF Aged
    <3>3. Old(d, now - Longest - Slow)
      BY <1>e, <3>1, <3>2
    <3>4. now - Longest - Slow \in Int /\ now - Longest - Slow <= now
      BY <1>0
    <3> QED BY <1>a, <2>1, <3>3, <3>4 DEF Cached
  <2> QED BY <1>n, <1>s, <2>1, <2>2 DEF Aged
<1>7. CASE Identify \/ Count \/ Fill \/ ListFails \/ Detail \/ Query
  <2>1. /\ UNCHANGED <<shown, listed, smi, smiDue>>
        /\ step' \notin {"nvml", "smi", "reuse"}
    BY <1>7 DEF Identify, Count, Fill, ListFails, Detail, Query, AfterList, cacheVars
  <2> QED BY <1>n, <1>s, <2>1 DEF Aged
<1>8. CASE NoHandle
  <2>1. /\ step \in Listing /\ step # "idle" /\ NextGpu(shown, named) /\ named' = named /\ shown' = shown /\ said' = said
        /\ UNCHANGED <<begun, smi, smiDue>>
    BY <1>8 DEF NoHandle, Listing
  <2>2. /\ \A d \in said' : Since(d, begun)
        /\ \A d \in shown : d.gpu \in named' => Since(d, begun)
        /\ \A d \in shown : Old(d, listed - Slow)
    BY <2>1 DEF UnderWay, Aged
  <2> QED BY <1>g, <2>1, <2>2
<1>9. CASE Commit
  <2>1. /\ step \in Listing /\ step # "idle" /\ NextGpu(Kept, named') /\ named' = named \cup {uuid} /\ shown' = Kept
        /\ said' = said \cup found /\ UNCHANGED <<begun, smi, smiDue>>
    BY <1>9 DEF Commit, Listing
  <2>2. /\ \A d \in said' : Since(d, begun)
        /\ \A d \in Kept : d.gpu \in named' => Since(d, begun)
    BY <2>1 DEF UnderWay, Kept
  <2>3. \A d \in Kept : Old(d, listed - Slow)
    <3>1. listed - Slow <= begun /\ listed - Slow \in Int
      BY <1>0, <2>1
    <3>2. \A d \in found : Old(d, listed - Slow)
      BY <1>0, <1>e, <3>1 DEF UnderWay
    <3> QED BY <3>2 DEF Kept, Aged
  <2> QED BY <1>g, <2>1, <2>2, <2>3
<1>10. CASE NvmlFails
  <2>1. /\ UNCHANGED <<smi, smiDue, begun>> /\ shown' = {}
        /\ step' \notin {"nvml", "smi"}
        /\ step' = "reuse" => now < smiDue
    BY <1>0, <1>10 DEF NvmlFails
  <2>2. step' = "reuse" => begun < smiDue
    BY <1>0, <2>1
  <2> QED BY <1>s, <2>1, <2>2 DEF Aged
<1>11. CASE Parsed
  <2>1. /\ step = "parse" /\ step' = "smi" /\ UNCHANGED <<begun, shown, listed>>
        /\ said' = found /\ smi' = found /\ smiDue' = now + interval
    BY <1>11 DEF Parsed
  <2>2. \A d \in found : Since(d, begun)
    BY DEF UnderWay
  <2>3. \A d \in found : Old(d, begun - Longest - Slow)'
    <3>1. \A d \in found : Old(d, begun - Longest - Slow)
      BY <1>0, <1>b, <1>e, <2>2
    <3> QED BY <1>a, <1>b, <2>1, <3>1 DEF Cached
  <2>4. \A d \in found : Old(d, smiDue - Longest - Slow)'
    <3>0. PICK at \in Int : at = now + interval - Longest - Slow
      BY <1>0
    <3>1. at <= begun /\ at <= now
      BY <1>0, <2>1, <3>0
    <3>2. \A d \in found : Old(d, at)
      BY <1>0, <1>e, <2>2, <3>1
    <3>3. \A d \in found : Old(d, at)'
      BY <1>a, <3>1, <3>2 DEF Cached
    <3> QED BY <1>0, <2>1, <3>0, <3>3
  <2> QED BY <1>n, <2>1, <2>3, <2>4 DEF Aged
<1>12. CASE QueryFails
  <2>1. step' = "smi" /\ UNCHANGED <<begun, shown, listed, smi>> /\ said' = smi /\ smiDue' = now + interval
        /\ ghosts' = ghosts \cup {SessionOf(d) : d \in smi}
    BY <1>12 DEF QueryFails
  <2>2. \A d \in smi : MayBeNameless(d)'
    BY KnownKept DEF Aged, Old
  <2>3. \A d \in smi : SessionOf(d) \in ghosts'
    BY <2>1
  <2>4. \A at : \A d \in smi : Old(d, at)'
    BY <2>2, <2>3 DEF Old, SessionOf
  <2> QED BY <1>n, <2>1, <2>4 DEF Aged
<1>13. CASE Reuse
  <2>1. step = "reuse" /\ step' = "smi" /\ UNCHANGED <<begun, shown, listed, smi, smiDue>> /\ said' = smi
    BY <1>13 DEF Reuse, cacheVars
  <2>2. begun - Longest - Slow <= smiDue - Longest - Slow /\ smiDue - Longest - Slow \in Int
    BY <1>0, <2>1 DEF Aged
  <2>3. \A d \in smi : Old(d, begun - Longest - Slow)
    BY <1>b, <1>e, <2>2 DEF Aged
  <2>4. \A d \in smi : Old(d, begun - Longest - Slow)'
    BY <1>a, <1>b, <2>1, <2>3 DEF Cached
  <2> QED BY <1>n, <1>s, <2>1, <2>4 DEF Aged
<1>14. CASE SmiFails
  <2>1. step' = "smi" /\ said' = {} /\ UNCHANGED <<shown, listed, smi, smiDue>>
    BY <1>14 DEF SmiFails, sampleVars, cacheVars, Placed
  <2> QED BY <1>n, <1>s, <2>1 DEF Aged
<1>15. CASE Finish
  <2>1. step' = "idle" /\ UNCHANGED <<shown, listed, smi, smiDue>>
    BY <1>15 DEF Finish, cacheVars
  <2> QED BY <1>n, <1>s, <2>1 DEF Aged
<1>16. CASE RestartAgent
  BY <1>16 DEF RestartAgent, Aged
<1> QED BY <1>1, <1>2, <1>3, <1>4, <1>5, <1>6, <1>7, <1>8, <1>9, <1>10, <1>11, <1>12, <1>13, <1>14,
           <1>15, <1>16 DEF Next
----------------------------------------------------------------------------
LEMMA AgesHold == Spec => [](Placed /\ Paced /\ UnderWay /\ Aged)
<1> DEFINE Inv == Placed /\ Paced /\ UnderWay /\ Aged
<1>1. Init => Inv
  <2>1. 0 <= 0 + Longest /\ -1 <= 0
    OBVIOUS
  <2> QED BY <2>1 DEF Init, NodeInit, Placed, Paced, UnderWay, Aged, Never, Listing, AtGpu, InSmi
<1>2. TypeOK /\ Inv /\ [Next]_vars => Inv'
  BY PlacedKept, PacedKept, UnderWayKept, AgedKept
<1> QED BY <1>1, <1>2, TypeHolds, PTL DEF Spec

\* What a sample says of a process is not older than Fresh, but for lists that
\* were put off unread, and one it has no start time of has ended or is one
\* /proc need not tell of (ReportIsFresh).
THEOREM ReportsAreFresh == Spec => []ReportIsFresh
<1>1. TypeOK /\ Paced /\ Aged => ReportIsFresh
  <2> SUFFICES ASSUME TypeOK, Paced, Aged, step \in {"nvml", "smi"}, NEW d \in said PROVE d \in Reportable
    BY DEF ReportIsFresh
  <2>1. Old(d, begun - Longest - Slow)
    BY DEF Aged
  <2>2. /\ now - Fresh <= begun - Longest - Slow
        /\ now - Fresh \in Int /\ begun - Longest - Slow \in Int
    BY DEF Paced, Fresh, TypeOK, NodeTypeOK, Times
  <2>3. Old(d, now - Fresh)
    BY <2>1, <2>2, KnownEarlier DEF TypeOK
  <2>4. d \in Details
    BY DEF TypeOK
  <2> QED BY <2>3, <2>4 DEF Old, Reportable
<1> QED BY <1>1, AgesHold, TypeHolds, PTL
----------------------------------------------------------------------------
(* The agent keeps its promise *)

\* A turn of the sampling loop: a sample is begun within Refresh of the last one.
Turn ==
  /\ sampled <= now
  /\ step = "idle" => now <= sampled + Refresh
  /\ step # "idle" => sampled < begun /\ begun <= sampled + Refresh

LEMMA TurnKept ==
  ASSUME TypeOK, Paced, Turn, [Next]_vars
  PROVE  Turn'
<1> USE DEF Turn
<1>0. /\ now \in Int /\ sampled \in Int /\ begun \in Int /\ Slow \in Nat /\ Refresh \in Nat /\ begun <= now
      /\ list \in Lists
  BY DEF TypeOK, NodeTypeOK, Times, Paced
<1>1. ASSUME UNCHANGED <<now, sampled, begun>>, step' = step \/ (step # "idle" /\ step' # "idle") PROVE Turn'
  BY <1>1
<1>2. CASE UNCHANGED vars
  BY <1>1, <1>2 DEF vars, nodeVars, processVars, sampleVars
<1>3. ASSUME NEW p \in Procs, Come(p) \/ Go(p) PROVE Turn'
  BY <1>1, <1>3 DEF Come, Go, Start, Exit, sampleVars
<1>4. ASSUME NEW i \in Intervals, SetInterval(i) PROVE Turn'
  BY <1>1, <1>4 DEF SetInterval, nodeVars, processVars, sampleVars
<1>5. CASE BeginListing
  <2>1. step = "idle" /\ now > sampled /\ begun' = now /\ step' # "idle" /\ UNCHANGED <<now, sampled>>
    BY <1>5 DEF BeginListing, nodeVars, processVars
  <2> QED BY <1>0, <2>1
<1>6. ASSUME NEW uuids \in SUBSET Gpus, BeginCached(uuids) PROVE Turn'
  <2>1. step = "idle" /\ now > sampled /\ begun' = now /\ step' # "idle" /\ UNCHANGED <<now, sampled>>
    BY <1>6 DEF BeginCached, nodeVars, processVars
  <2> QED BY <1>0, <2>1
<1>7. CASE Identify \/ Count \/ Fill \/ ListFails
  <2>1. step # "idle" /\ step' # "idle" /\ UNCHANGED <<now, sampled, begun>>
    BY <1>7 DEF Identify, Count, Fill, ListFails, AfterList, nodeVars, processVars
  <2> QED BY <1>1, <2>1
<1>8. CASE NoHandle \/ Commit
  <2>1. step # "idle" /\ begun' = begun
    BY <1>8 DEF NoHandle, Commit
  <2>2. step' # "idle" /\ UNCHANGED <<now, sampled>>
    BY <1>0, <1>8, NextGpuGoes DEF NoHandle, Commit, processVars
  <2> QED BY <1>1, <2>1, <2>2
<1>9. CASE Detail \/ NvmlFails \/ Query \/ Parsed \/ Reuse \/ SmiFails
  <2>1. step # "idle" /\ step' # "idle" /\ UNCHANGED <<now, sampled, begun>>
    BY <1>9 DEF Detail, NvmlFails, Query, Parsed, Reuse, SmiFails, sampleVars, nodeVars, processVars
  <2> QED BY <1>1, <2>1
<1>10. CASE QueryFails
  BY <1>1, <1>10 DEF QueryFails, processVars
<1>11. CASE Finish \/ RestartAgent
  <2>1. step' = "idle" /\ sampled' = now /\ now' = now
    BY <1>11 DEF Finish, RestartAgent, processVars
  <2> QED BY <1>0, <2>1
<1>12. CASE Tick
  <2>1. /\ now' = now + 1 /\ UNCHANGED <<sampled, begun, step>>
        /\ step = "idle" => now < sampled + Refresh
    BY <1>12 DEF Tick, sampleVars
  <2> QED BY <1>0, <2>1
<1> QED BY <1>2, <1>3, <1>4, <1>5, <1>6, <1>7, <1>8, <1>9, <1>10, <1>11, <1>12 DEF Next

\* What is kept has been seen.
LEMMA CachedIsHeard ==
  ASSUME TypeOK, UnderWay, Aged, ghosts \subseteq Heard, NEW d \in shown \cup smi \cup found
  PROVE  SessionOf(d) \in Heard
<1>1. SessionOf(d) \in Keys
  BY SessionInKeys DEF TypeOK
<1>2. CASE SessionOf(d) \in ghosts
  BY <1>2
<1>3. ASSUME NEW at, AliveSince(SessionOf(d), at) PROVE SessionOf(d) \in Heard
  BY <1>1, <1>3 DEF AliveSince, Alive, Heard
<1>4. ASSUME NEW at, Old(d, at) PROVE SessionOf(d) \in Heard
  BY <1>2, <1>3, <1>4 DEF Old
<1>5. \E at : Since(d, at) \/ Old(d, at)
  BY DEF Aged, UnderWay
<1> QED BY <1>3, <1>4, <1>5 DEF Since

LEMMA GhostsAreHeard ==
  ASSUME TypeOK, UnderWay, Aged, ghosts \subseteq Heard, [Next]_vars
  PROVE  ghosts' \subseteq Heard /\ ghosts' \subseteq Heard'
<1>1. Heard \subseteq Heard'
  BY StepLives, HeardKept DEF TypeOK
<1>2. ghosts' \subseteq ghosts \cup {SessionOf(d) : d \in shown \cup smi \cup found}
  <2>1. CASE QueryFails
    BY <2>1 DEF QueryFails
  <2>2. CASE NoHandle
    BY <2>2 DEF NoHandle, NextGpu
  <2>3. CASE Commit
    <3>1. Kept \subseteq shown \cup found
      BY DEF Kept
    <3>2. ghosts' \subseteq ghosts \cup {SessionOf(d) : d \in Kept}
      BY <2>3 DEF Commit, NextGpu
    <3> QED BY <3>1, <3>2
  <2>4. CASE ~(QueryFails \/ NoHandle \/ Commit)
    BY <2>4 DEF Next, vars, Come, Go, Start, Exit, SetInterval, BeginListing, BeginCached, Identify, Count, Fill,
                ListFails, Detail, NvmlFails, Query, Parsed, Reuse, SmiFails, Finish, RestartAgent, Tick, nodeVars
  <2> QED BY <2>1, <2>2, <2>3, <2>4
<1> QED BY <1>1, <1>2, CachedIsHeard

\* A step of the agent is one NodeSpec allows: a listing that leaves a list of the
\* one before is a Forget, and so is a query of nvidia-smi that fails.
LEMMA PromiseStep ==
  ASSUME TypeOK, Paced, Turn, UnderWay, Aged, ReportIsFresh, ghosts \subseteq Heard, [Next]_vars
  PROVE  [NodeNext]_nodeVars
<1>0. /\ now \in Int /\ sampled \in Int /\ begun \in Int /\ Slow \in Nat /\ Refresh \in Nat /\ begun <= now
      /\ list \in Lists
  BY DEF TypeOK, NodeTypeOK, Times, Paced
<1>1. ASSUME UNCHANGED nodeVars PROVE [NodeNext]_nodeVars
  BY <1>1
<1>2. CASE UNCHANGED vars
  BY <1>1, <1>2 DEF vars
<1>3. ASSUME NEW p \in Procs, Come(p) \/ Go(p) PROVE NodeNext
  BY <1>3 DEF Come, Go, NodeNext
<1>4. ASSUME NEW i \in Intervals, SetInterval(i) PROVE UNCHANGED nodeVars
  BY <1>4 DEF SetInterval
<1>5. ASSUME NEW uuids \in SUBSET Gpus, BeginCached(uuids) PROVE UNCHANGED nodeVars
  BY <1>5 DEF BeginCached
<1>6. CASE \/ BeginListing \/ Identify \/ Count \/ Fill \/ ListFails \/ Detail
           \/ NvmlFails \/ Query \/ Parsed \/ Reuse \/ SmiFails
  <2>1. UNCHANGED nodeVars
    BY <1>6 DEF BeginListing, Identify, Count, Fill, ListFails, Detail, NvmlFails, Query, Parsed, Reuse, SmiFails
  <2> QED BY <1>1, <2>1
<1>7. CASE QueryFails \/ NoHandle \/ Commit
  <2>1. ghosts' \subseteq Heard /\ ghosts' = ghosts \cup ghosts'
    BY GhostsAreHeard, GhostsGrow
  <2>2. UNCHANGED <<processVars, sampled, newest>>
    BY <1>7 DEF QueryFails, NoHandle, Commit, NextGpu
  <2>3. Forget(ghosts')
    BY <2>1, <2>2 DEF Forget
  <2> QED BY <2>1, <2>3 DEF NodeNext
<1>8. CASE Finish
  <2>1. newest' = said /\ step \in {"nvml", "smi"} /\ sampled' = now /\ UNCHANGED <<processVars, ghosts>>
    BY <1>8 DEF Finish
  <2>2. now > sampled
    BY <1>0, <2>1 DEF Turn
  <2>3. newest' \subseteq Reportable
    BY <2>1 DEF ReportIsFresh
  <2> QED BY <2>1, <2>2, <2>3 DEF NodeNext, Report
<1>9. CASE RestartAgent
  <2>1. sampled' = now /\ UNCHANGED <<processVars, ghosts>>
        /\ newest' = IF now > sampled THEN {} ELSE newest
    BY <1>9 DEF RestartAgent
  <2>2. CASE now > sampled
    <3>1. newest' = {}
      BY <2>1, <2>2
    <3> QED BY <2>1, <2>2, <3>1 DEF NodeNext, Report
  <2>3. CASE ~(now > sampled)
    <3>1. newest' = newest /\ now = sampled
      BY <1>0, <2>1, <2>3 DEF Turn
    <3> QED BY <1>1, <2>1, <3>1 DEF nodeVars
  <2> QED BY <2>2, <2>3
<1>10. CASE Tick
  <2>1. now < MaxTime /\ now' = now + 1 /\ UNCHANGED <<life, died, sampled, newest, ghosts>>
    BY <1>10 DEF Tick
  <2>2. now < sampled + Refresh + Slow
    <3>1. CASE step = "idle"
      <4>1. now < sampled + Refresh
        BY <1>10, <3>1 DEF Tick
      <4> QED BY <1>0, <4>1
    <3>2. CASE step # "idle"
      <4>1. now < begun + Slow /\ begun <= sampled + Refresh
        BY <1>10, <3>2 DEF Tick, Turn
      <4> QED BY <1>0, <4>1
    <3> QED BY <3>1, <3>2
  <2> QED BY <2>1, <2>2 DEF NodeNext, Pass
<1> QED BY <1>1, <1>2, <1>3, <1>4, <1>5, <1>6, <1>7, <1>8, <1>9, <1>10 DEF Next

\* What Sessions counts on the agent keeps, whatever fails: its samples and the
\* time between them are as NodeSpec says (KeepsPromise).
THEOREM PromiseIsKept == Spec => KeepsPromise
<1> DEFINE Known  == Placed /\ Paced /\ UnderWay /\ Aged
           Promise == Turn /\ ghosts \subseteq Heard
<1>1. Init => Promise
  BY DEF Init, NodeInit, Turn
<1>2. TypeOK /\ Known /\ Promise /\ [Next]_vars => Promise'
  BY TurnKept, GhostsAreHeard
<1>3. TypeOK /\ Known /\ Promise /\ ReportIsFresh /\ [Next]_vars => [NodeNext]_nodeVars
  BY PromiseStep
<1>4. Init => NodeInit
  BY DEF Init
<1> QED BY <1>1, <1>2, <1>3, <1>4, TypeHolds, AgesHold, ReportsAreFresh, PTL DEF Spec, KeepsPromise, NodeSpec
----------------------------------------------------------------------------
(* What a listing without comings and goings shows *)

OfGpu(details, g) == {d \in details : d.gpu = g}

\* What a sample has of the GPUs it has named is what is kept of them.
Named ==
  /\ step \in Listing =>
       /\ \A g \in named \ {NoUuid}, l \in Lists : Gpu[l] = g => l < list
       /\ \A d \in said : d.gpu \in named
  /\ \A d \in shown : d.gpu = NoUuid \/ \E l \in Lists : d.gpu = Gpu[l]
  /\ step \in Listing \/ step = "nvml" =>
       \A g \in named \ {NoUuid} : OfGpu(said, g) = OfGpu(shown, g)

LEMMA NamedKept ==
  ASSUME TypeOK, Placed, Named, [Next]_vars
  PROVE  Named'
<1>0. list \in Lists /\ \A l \in Lists : l \in Int
  BY DEF TypeOK, Lists
<1>a. ASSUME UNCHANGED <<said, shown, named>>, step' \in Listing => step \in Listing /\ list <= list',
             step' = "nvml" => step = "nvml" \/ step \in Listing, list' \in Int
      PROVE  Named'
  <2>1. step' \in Listing => \A g \in named \ {NoUuid}, l \in Lists : Gpu[l] = g => l < list'
    BY <1>0, <1>a DEF Named
  <2> QED BY <1>a, <2>1 DEF Named, OfGpu
<1>b. ASSUME UNCHANGED <<step, list, said, shown, named>> PROVE Named'
  BY <1>b DEF Named, OfGpu
<1>c. ASSUME step' \notin Listing, step' # "nvml", shown' \subseteq shown PROVE Named'
  BY <1>c DEF Named
<1>1. CASE UNCHANGED vars
  BY <1>b, <1>1 DEF vars, sampleVars, cacheVars
<1>2. ASSUME NEW p \in Procs, Come(p) \/ Go(p) PROVE Named'
  BY <1>b, <1>2 DEF Come, Go, sampleVars, cacheVars
<1>3. ASSUME NEW i \in Intervals, SetInterval(i) PROVE Named'
  BY <1>b, <1>3 DEF SetInterval, sampleVars, cacheVars
<1>4. CASE Tick
  BY <1>b, <1>4 DEF Tick, sampleVars, cacheVars
<1>5. CASE BeginListing
  <2>1. said' = {} /\ named' = {} /\ shown' = shown
    BY <1>5 DEF BeginListing, Placed, cacheVars
  <2> QED BY <2>1 DEF Named
<1>6. ASSUME NEW uuids \in SUBSET Gpus, BeginCached(uuids) PROVE Named'
  <2>1. step' = "nvml" /\ named' = uuids /\ said' = {d \in shown : d.gpu \in uuids} /\ shown' = shown
    BY <1>6 DEF BeginCached, cacheVars
  <2>2. \A g \in named' : OfGpu(said', g) = OfGpu(shown', g)
    BY <2>1 DEF OfGpu
  <2> QED BY <2>1, <2>2 DEF Named, Listing, OfGpu
<1>7. CASE Identify \/ Detail
  <2>1. /\ UNCHANGED <<said, shown, named, list>> /\ (step \in Listing \/ step' = step)
        /\ step' # "nvml"
    BY <1>7 DEF Identify, Detail, Listing, cacheVars
  <2> QED BY <1>0, <1>a, <2>1
<1>8. CASE Count \/ Fill \/ ListFails
  <2>1. /\ UNCHANGED <<said, shown, named>> /\ step \in Listing
        /\ AfterList \/ (step' = "fill" /\ list' = list)
    BY <1>8 DEF Count, Fill, ListFails, Listing, cacheVars
  <2>2. list' \in Int /\ list <= list' /\ step' # "nvml"
    BY <1>0, <2>1 DEF AfterList
  <2> QED BY <1>a, <2>1, <2>2
<1>9. CASE NoHandle
  <2>1. UNCHANGED <<said, shown, named>> /\ step \in Listing
    BY <1>9 DEF NoHandle, Listing
  <2>2. list' \in Lists /\ step' \in {"gpu", "nvml"} /\ (step' = "gpu" => list < list')
    BY <1>0, <1>9, NextGpuGoes DEF NoHandle
  <2> QED BY <1>0, <1>a, <2>1, <2>2 DEF Listing
<1>10. CASE Commit
  <2>1. /\ step = "detail" /\ shown' = {d \in shown : d.gpu # uuid} \cup found
        /\ said' = said \cup found /\ named' = named \cup {uuid}
        /\ NextGpu(Kept, named \cup {uuid})
    BY <1>10 DEF Commit, Kept
  <2>2. uuid \in {Gpu[list], NoUuid} /\ \A d \in found : d.gpu = uuid
    BY <2>1 DEF Placed, AtGpu
  <2>3. /\ list' \in Lists /\ step' \in {"gpu", "nvml"}
        /\ step' = "gpu" => list < list' /\ \A l \in Lists : Gpu[l] = Gpu[list] => l < list'
    BY <1>0, <2>1, NextGpuGoes
  <2>4. ASSUME step' = "gpu", NEW g \in named' \ {NoUuid}, NEW l \in Lists, Gpu[l] = g PROVE l < list'
    <3>1. CASE g \in named
      <4>1. l < list
        BY <2>1, <2>4, <3>1 DEF Named, Listing
      <4> QED BY <1>0, <2>3, <2>4, <4>1
    <3>2. CASE g \notin named
      BY <2>1, <2>2, <2>3, <2>4, <3>2
    <3> QED BY <3>1, <3>2
  <2>5. \A d \in said' : d.gpu \in named'
    BY <2>1, <2>2 DEF Named, Listing
  <2>6. \A d \in shown' : d.gpu = NoUuid \/ \E l \in Lists : d.gpu = Gpu[l]
    BY <1>0, <2>1, <2>2 DEF Named
  <2>7. ASSUME NEW g \in named' \ {NoUuid} PROVE OfGpu(said', g) = OfGpu(shown', g)
    <3>1. CASE g = uuid
      <4>1. g \notin named
        <5>1. g = Gpu[list]
          BY <2>2, <2>7, <3>1
        <5> QED BY <1>0, <2>1, <2>7, <5>1 DEF Named, Listing
      <4>2. OfGpu(said, g) = {}
        BY <2>1, <4>1 DEF Named, Listing, OfGpu
      <4>3. OfGpu(said', g) = found
        BY <2>1, <2>2, <3>1, <4>2 DEF OfGpu
      <4>4. OfGpu(shown', g) = found
        BY <2>1, <2>2, <3>1 DEF OfGpu
      <4> QED BY <4>3, <4>4
    <3>2. CASE g # uuid
      <4>1. OfGpu(said, g) = OfGpu(shown, g)
        BY <2>1, <2>7, <3>2 DEF Named, Listing
      <4>2. OfGpu(said', g) = OfGpu(said, g) /\ OfGpu(shown', g) = OfGpu(shown, g)
        BY <2>1, <2>2, <3>2 DEF OfGpu
      <4> QED BY <4>1, <4>2
    <3> QED BY <3>1, <3>2
  <2> QED BY <2>3, <2>4, <2>5, <2>6, <2>7 DEF Named, Listing, OfGpu
<1>11. CASE NvmlFails \/ Query \/ Parsed \/ QueryFails \/ Reuse \/ SmiFails \/ Finish \/ RestartAgent
  <2>1. step' \notin Listing /\ step' # "nvml" /\ shown' \subseteq shown
    BY <1>11 DEF NvmlFails, Query, Parsed, QueryFails, Reuse, SmiFails, Finish, RestartAgent, cacheVars, Listing
  <2> QED BY <1>c, <2>1
<1> QED BY <1>1, <1>2, <1>3, <1>4, <1>5, <1>6, <1>7, <1>8, <1>9, <1>10, <1>11 DEF Next

\* The lists of a GPU, and those of them read before one.
Group(l)  == {i \in Lists : Gpu[i] = Gpu[l]}
Before(l) == {i \in Lists : i < l /\ Gpu[i] = Gpu[l]}

LEMMA Groups ==
  ASSUME NEW l \in Lists
  PROVE  /\ l < Calls /\ Gpu[l + 1] = Gpu[l] => Before(l + 1) = Before(l) \cup {l}
         /\ l = Calls \/ Gpu[l + 1] # Gpu[l] => Group(l) = Before(l) \cup {l}
         /\ l \in Group(l) /\ l \notin Before(l)
<1>0. l \in Int /\ Calls \in Int /\ \A i \in Lists : i \in Int /\ 1 <= i /\ i <= Calls
  BY DEF Lists
<1>1. ASSUME l < Calls, Gpu[l + 1] = Gpu[l] PROVE Before(l + 1) = Before(l) \cup {l}
  <2>1. ASSUME NEW i \in Lists PROVE i < l + 1 <=> i < l \/ i = l
    BY <1>0
  <2> QED BY <1>1, <2>1 DEF Before
<1>2. ASSUME l = Calls \/ Gpu[l + 1] # Gpu[l], NEW i \in Group(l), i > l PROVE FALSE
  <2>0. \A i1, j1, k1 \in Lists : i1 <= j1 /\ j1 <= k1 /\ Gpu[i1] = Gpu[k1] => Gpu[j1] = Gpu[i1]
    OBVIOUS
  <2>1. i \in Lists /\ Gpu[i] = Gpu[l]
    BY <1>2 DEF Group
  <2>2. l < Calls /\ l + 1 \in Lists /\ l <= l + 1 /\ l + 1 <= i
    BY <1>0, <1>2, <2>1 DEF Lists
  <2> QED BY <1>0, <1>2, <2>0, <2>1, <2>2
<1>3. ASSUME l = Calls \/ Gpu[l + 1] # Gpu[l] PROVE Group(l) = Before(l) \cup {l}
  <2>1. ASSUME NEW i \in Group(l) PROVE i < l \/ i = l
    BY <1>0, <1>2, <1>3 DEF Group
  <2> QED BY <2>1 DEF Group, Before
<1> QED BY <1>0, <1>1, <1>3 DEF Group, Before

\* What NVML shows on one more list.
LEMMA OneMoreList ==
  ASSUME NEW S, NEW l
  PROVE  /\ OnLists(S \cup {l}) = OnLists(S) \cup [gpu: {Gpu[l]}, pid: PidsOn(l), list: {l}]
         /\ OnLists({}) = {}
BY DEF OnLists

\* What has been read of the listing under way, or of the last one.
ReadSoFar ==
  /\ ~steady => read = {}
  /\ step \in InSmi => read = {}
  /\ step \in {"query", "reuse"} => ~steady
  /\ \A l \in read :
       /\ step \in {"gpu", "count", "fill"} => l < list
       /\ step = "detail" => l <= list
       /\ step \in AtGpu /\ Gpu[l] = Gpu[list] => uuid = Gpu[list]

LEMMA ReadSoFarKept ==
  ASSUME TypeOK, Placed, ReadSoFar, [Next]_vars
  PROVE  ReadSoFar'
<1>0. list \in Lists /\ read \subseteq Lists /\ \A l \in Lists : l \in Int
  BY DEF TypeOK, Lists
<1>a. ASSUME UNCHANGED <<step, list, uuid, read, steady>> PROVE ReadSoFar'
  BY <1>a DEF ReadSoFar
<1>b. ASSUME read' = {}, step' \in {"query", "reuse"} => ~steady' PROVE ReadSoFar'
  BY <1>b DEF ReadSoFar
\* Behind a list that was read, or was not.
<1>c. ASSUME step \in {"count", "fill"}, UNCHANGED <<uuid, steady>>, read' = read \/ read' = InFull,
             AfterList \/ (step' = "fill" /\ list' = list /\ read' = read)
      PROVE  ReadSoFar'
  <2>1. CASE step' = "fill" /\ list' = list /\ read' = read
    BY <1>c, <2>1 DEF ReadSoFar, AtGpu, InSmi
  <2>2. CASE AfterList
    <3>1. /\ step' \in {"count", "detail"} /\ Gpu[list'] = Gpu[list] /\ list <= list'
          /\ step' = "count" => list < list'
          /\ list' \in Int
      BY <1>0, <2>2, AfterListType
    <3>2. ASSUME NEW l \in read' PROVE l \in Int /\ l <= list /\ (Gpu[l] = Gpu[list] => uuid = Gpu[list])
      BY <1>0, <1>c, <3>2 DEF InFull, ReadSoFar, AtGpu
    <3>3. ~steady' => read' = {}
      BY <1>c DEF InFull, ReadSoFar
    <3>4. \A l \in read' : step' = "count" => l < list'
      BY <1>0, <3>1, <3>2
    <3>5. \A l \in read' : step' = "detail" => l <= list'
      BY <1>0, <3>1, <3>2
    <3>6. \A l \in read' : Gpu[l] = Gpu[list'] => uuid' = Gpu[list']
      BY <1>c, <3>1, <3>2
    <3> QED BY <3>1, <3>3, <3>4, <3>5, <3>6 DEF ReadSoFar, AtGpu, InSmi
  <2> QED BY <1>c, <2>1, <2>2
\* Behind a GPU.
<1>d. ASSUME step \in {"gpu", "detail"}, UNCHANGED <<read, steady>>,
             step' \in {"gpu", "nvml"}, step' = "gpu" => list < list' /\ list' \in Lists
      PROVE  ReadSoFar'
  <2>1. \A l \in read : l <= list
    BY <1>0, <1>d DEF ReadSoFar
  <2>2. \A l \in read' : step' = "gpu" => l < list'
    BY <1>0, <1>d, <2>1
  <2> QED BY <1>d, <2>2 DEF ReadSoFar, AtGpu, InSmi
<1>1. CASE UNCHANGED vars
  BY <1>a, <1>1 DEF vars, sampleVars
<1>2. ASSUME NEW p \in Procs, Come(p) \/ Go(p) PROVE ReadSoFar'
  BY <1>b, <1>2 DEF Come, Go, NotSteady
<1>3. ASSUME NEW i \in Intervals, SetInterval(i) PROVE ReadSoFar'
  BY <1>a, <1>3 DEF SetInterval, sampleVars
<1>4. CASE Tick
  BY <1>a, <1>4 DEF Tick, sampleVars
<1>5. CASE BeginListing
  BY <1>b, <1>5 DEF BeginListing
<1>6. ASSUME NEW uuids \in SUBSET Gpus, BeginCached(uuids) PROVE ReadSoFar'
  BY <1>6 DEF BeginCached, ReadSoFar, AtGpu, InSmi
<1>7. CASE Identify
  <2>1. step = "gpu" /\ step' = "count" /\ UNCHANGED <<list, read, steady>>
    BY <1>7 DEF Identify
  <2>2. \A l \in read : l < list /\ Gpu[l] # Gpu[list]
    BY <1>0, <2>1 DEF Placed, ReadSoFar
  <2> QED BY <2>1, <2>2 DEF ReadSoFar, AtGpu, InSmi
<1>8. CASE NoHandle
  <2>1. step' \in {"gpu", "nvml"} /\ (step' = "gpu" => list < list' /\ list' \in Lists)
    BY <1>0, <1>8, NextGpuGoes DEF NoHandle
  <2> QED BY <1>d, <1>8, <2>1 DEF NoHandle
<1>9. CASE Count
  BY <1>c, <1>9 DEF Count
<1>10. CASE Fill
  BY <1>c, <1>10 DEF Fill
<1>11. CASE ListFails
  BY <1>c, <1>11 DEF ListFails
<1>12. CASE Detail
  BY <1>a, <1>12 DEF Detail
<1>13. CASE Commit
  <2>1. step' \in {"gpu", "nvml"} /\ (step' = "gpu" => list < list' /\ list' \in Lists)
    BY <1>0, <1>13, NextGpuGoes DEF Commit
  <2> QED BY <1>d, <1>13, <2>1 DEF Commit
<1>14. CASE NvmlFails \/ RestartAgent
  BY <1>b, <1>14 DEF NvmlFails, RestartAgent, NotSteady
<1>15. CASE Query \/ Parsed \/ QueryFails \/ Reuse \/ SmiFails
  <2>1. step \in InSmi /\ read' = read /\ step' \in {"parse", "smi"}
    BY <1>15 DEF Query, Parsed, QueryFails, Reuse, SmiFails, InSmi
  <2> QED BY <1>b, <2>1 DEF ReadSoFar
<1>16. CASE Finish
  BY <1>16 DEF Finish, ReadSoFar, AtGpu, InSmi
<1> QED BY <1>1, <1>2, <1>3, <1>4, <1>5, <1>6, <1>7, <1>8, <1>9, <1>10, <1>11, <1>12, <1>13, <1>14,
           <1>15, <1>16 DEF Next

\* Some entries have their details, the rest are still without.
Partly(details, rest, entries) ==
  /\ {UseOf(d) : d \in details} \cup {UseOf(e) : e \in rest} = {UseOf(e) : e \in entries}
  /\ \A d \in details : d.start \in StartsOf(d.pid)

Exact ==
  /\ step \in {"count", "fill"} /\ Before(list) \subseteq read => raw = OnLists(Before(list))
  /\ step = "detail" /\ Group(list) \subseteq read => Partly(found, raw, OnLists(Group(list)))
  /\ \A l \in Lists : Group(l) \subseteq read /\ (step \in AtGpu => Gpu[l] # Gpu[list])
                        => IsExactly(OfGpu(shown, Gpu[l]), OnLists(Group(l)))
  /\ steady /\ step = "parse" => Partly(found, raw, OnLists(Lists \ Graphics))
  /\ steady /\ step = "smi" => IsExactly(said, OnLists(Lists \ Graphics))

LEMMA PartlyFacts ==
  /\ \A D, E : Partly(D, {}, E) => IsExactly(D, E)
  /\ \A E : Partly({}, E, E)
  /\ \A D, R, E, e, s : /\ Partly(D, R, E) /\ e \in R /\ e \in Entries /\ s \in StartsOf(e.pid)
                        => Partly(D \cup {Detailed(e, s)}, R \ {e}, E)
<1>1. \A D, E : Partly(D, {}, E) => IsExactly(D, E)
  BY DEF Partly, IsExactly
<1>2. \A E : Partly({}, E, E)
  BY DEF Partly
<1>3. ASSUME NEW D, NEW R, NEW E, NEW e \in R, e \in Entries, NEW s \in StartsOf(e.pid), Partly(D, R, E)
      PROVE  Partly(D \cup {Detailed(e, s)}, R \ {e}, E)
  <2> DEFINE d0 == Detailed(e, s)
  <2>1. UseOf(d0) = UseOf(e) /\ d0.start \in StartsOf(d0.pid)
    BY <1>3, DetailedType
  <2> HIDE DEF d0
  <2>2. {UseOf(d) : d \in D \cup {d0}} = {UseOf(d) : d \in D} \cup {UseOf(e)}
    BY <2>1
  <2>3. {UseOf(f) : f \in R} = {UseOf(f) : f \in R \ {e}} \cup {UseOf(e)}
    BY <1>3
  <2>4. \A d \in D \cup {d0} : d.start \in StartsOf(d.pid)
    BY <1>3, <2>1 DEF Partly
  <2>5. Partly(D \cup {d0}, R \ {e}, E)
    BY <1>3, <2>2, <2>3, <2>4 DEF Partly
  <2> QED BY <2>5 DEF d0
<1> QED BY <1>1, <1>2, <1>3

\* While no process comes or goes, what NVML and /proc show stays.
LEMMA StillShown ==
  ASSUME life' = life
  PROVE  /\ \A S : OnLists(S)' = OnLists(S)
         /\ \A pid : StartsOf(pid)' = StartsOf(pid)
BY DEF OnLists, PidsOn, StartsOf, Holders, Alive

LEMMA ExactKept ==
  ASSUME TypeOK, Placed, ReadSoFar, Exact, [Next]_vars
  PROVE  Exact'
<1>0. /\ list \in Lists /\ list \in Int /\ Calls \in Int /\ list <= Calls
      /\ raw \subseteq Entries /\ read \subseteq Lists
      /\ \A l \in Lists : l \in Int /\ Gpu[l] # NoUuid
  BY DEF TypeOK, Lists
<1>a. life' = life => /\ \A S : OnLists(S)' = OnLists(S)
                      /\ \A pid : StartsOf(pid)' = StartsOf(pid)
                      /\ \A D, E : IsExactly(D, E) => IsExactly(D, E)'
                      /\ \A D, R, E : Partly(D, R, E) => Partly(D, R, E)'
  <2> SUFFICES ASSUME life' = life
               PROVE  /\ \A S : OnLists(S)' = OnLists(S)
                      /\ \A pid : StartsOf(pid)' = StartsOf(pid)
                      /\ \A D, E : IsExactly(D, E) => IsExactly(D, E)'
                      /\ \A D, R, E : Partly(D, R, E) => Partly(D, R, E)'
    OBVIOUS
  <2> QED BY StillShown DEF IsExactly, Partly, UseOf
\* What is left of the claim in a step that reads no list and keeps what is shown.
<1>b. ASSUME life' = life, UNCHANGED <<read, shown>>,
             \A l \in Lists : Group(l) \subseteq read /\ step \in AtGpu /\ Gpu[l] = Gpu[list]
                                => step' \in AtGpu /\ Gpu[l] = Gpu[list']
      PROVE  \A l \in Lists : Group(l) \subseteq read' /\ (step' \in AtGpu => Gpu[l] # Gpu[list'])
                        => IsExactly(OfGpu(shown, Gpu[l]), OnLists(Group(l)))'
  <2> SUFFICES ASSUME NEW l \in Lists, Group(l) \subseteq read, step' \in AtGpu => Gpu[l] # Gpu[list']
               PROVE  IsExactly(OfGpu(shown, Gpu[l]), OnLists(Group(l)))'
    BY <1>b
  <2>1. IsExactly(OfGpu(shown, Gpu[l]), OnLists(Group(l)))
    BY <1>b DEF Exact
  <2>2. OfGpu(shown, Gpu[l])' = OfGpu(shown, Gpu[l]) /\ OnLists(Group(l))' = OnLists(Group(l))
    BY <1>a, <1>b DEF OfGpu, Group
  <2> QED BY <1>a, <1>b, <2>1, <2>2 DEF IsExactly
<1>c. ASSUME life' = life, UNCHANGED <<step, list, raw, found, said, shown, read, steady>> PROVE Exact'
  <2>1. /\ OnLists(Before(list))' = OnLists(Before(list))
        /\ OnLists(Group(list))' = OnLists(Group(list))
        /\ OnLists(Lists \ Graphics)' = OnLists(Lists \ Graphics)
    BY <1>a, <1>c DEF Before, Group
  <2>2. step' = "detail" /\ Group(list') \subseteq read' => Partly(found, raw, OnLists(Group(list)))'
    BY <1>a, <1>c, <2>1 DEF Exact, Partly
  <2>3. /\ steady' /\ step' = "parse" => Partly(found, raw, OnLists(Lists \ Graphics))'
        /\ steady' /\ step' = "smi" => IsExactly(said, OnLists(Lists \ Graphics))'
    BY <1>a, <1>c, <2>1 DEF Exact, Partly, IsExactly
  <2>4. step' \in {"count", "fill"} /\ Before(list') \subseteq read' => raw' = OnLists(Before(list))'
    BY <1>c, <2>1 DEF Exact
  <2> QED BY <1>b, <1>c, <2>2, <2>3, <2>4 DEF Exact, Before, Group
\* A step after which nothing has been read.
<1>d. ASSUME read' = {}, step' \in {"count", "fill"} => raw' = raw /\ list' = list /\ step' = step,
             step' = "detail" => list' = list, steady' => step' \notin {"parse", "smi"}
      PROVE  Exact'
  <2>1. \A l \in Lists : ~(Group(l) \subseteq {})
    BY Groups
  <2>2. step' \in {"count", "fill"} /\ Before(list) = {} => raw' = {}
    BY <1>d, OneMoreList DEF Exact
  <2>3. step' \in {"count", "fill"} /\ Before(list') \subseteq read' => raw' = OnLists(Before(list))'
    <3>1. OnLists({})' = {}
      BY DEF OnLists
    <3> QED BY <1>d, <2>2, <3>1
  <2>4. \A l \in Lists : ~(Group(l) \subseteq read')
    BY <1>d, <2>1
  <2>5. step' = "detail" => ~(Group(list') \subseteq read')
    BY <1>0, <1>d, <2>1
  <2> QED BY <1>d, <2>3, <2>4, <2>5 DEF Exact, Group
\* A list is done with: it was read in full now, or does not count as read.
<1>e. ASSUME step \in {"count", "fill"}, AfterList, life' = life, UNCHANGED <<found, shown, steady>>,
             \/ read' = read
             \/ read' = read \cup {list} /\ raw' = raw \cup [gpu: {Gpu[list]}, pid: PidsOn(list), list: {list}]
      PROVE  Exact'
  <2>0. /\ found = {} /\ list \notin read /\ step \in AtGpu
        /\ step' \in {"count", "detail"} /\ Gpu[list'] = Gpu[list] /\ step' \in AtGpu
    BY <1>0, <1>e, AfterListType DEF Placed, ReadSoFar, AtGpu
  <2>1. Before(list) \cup {list} \subseteq read' => raw' = OnLists(Before(list) \cup {list})
    <3>1. ASSUME Before(list) \cup {list} \subseteq read'
          PROVE  Before(list) \subseteq read /\ raw' = raw \cup [gpu: {Gpu[list]}, pid: PidsOn(list), list: {list}]
      BY <1>0, <1>e, <2>0, <3>1, Groups
    <3> QED BY <1>e, <3>1, OneMoreList DEF Exact
  <2>2. step' = "count" => list' = list + 1 /\ Before(list') = Before(list) \cup {list}
    BY <1>0, <1>e, AfterListType, Groups
  <2>3. step' = "detail" => list' = list /\ Group(list') = Before(list) \cup {list}
    BY <1>0, <1>e, AfterListType, Groups
  <2>4. step' = "count" /\ Before(list') \subseteq read' => raw' = OnLists(Before(list))'
    BY <1>a, <1>e, <2>1, <2>2
  <2>5. step' = "detail" /\ Group(list') \subseteq read' => Partly(found, raw, OnLists(Group(list)))'
    <3>1. step' = "detail" /\ Group(list') \subseteq read' => raw' = OnLists(Group(list))'
      BY <1>a, <1>e, <2>1, <2>3
    <3>2. found' = {}
      BY <1>e, <2>0
    <3> QED BY <3>1, <3>2 DEF Partly
  <2>6. \A l \in Lists : Group(l) \subseteq read' /\ Gpu[l] # Gpu[list'] => IsExactly(OfGpu(shown, Gpu[l]), OnLists(Group(l)))'
    <3> SUFFICES ASSUME NEW l \in Lists, Group(l) \subseteq read', Gpu[l] # Gpu[list]
                 PROVE  IsExactly(OfGpu(shown, Gpu[l]), OnLists(Group(l)))'
      BY <2>0
    <3>1. Group(l) \subseteq read
      BY <1>e DEF Group
    <3>2. IsExactly(OfGpu(shown, Gpu[l]), OnLists(Group(l)))
      BY <3>1 DEF Exact
    <3>3. OfGpu(shown, Gpu[l])' = OfGpu(shown, Gpu[l]) /\ OnLists(Group(l))' = OnLists(Group(l))
      BY <1>a, <1>e DEF OfGpu, Group
    <3> QED BY <1>a, <1>e, <3>2, <3>3 DEF IsExactly
  <2> QED BY <2>0, <2>4, <2>5, <2>6 DEF Exact
\* Behind a GPU, when what is kept of the others is what it was.
<1>f. ASSUME step \in {"gpu", "detail"}, step' \in {"gpu", "nvml"}, life' = life, UNCHANGED <<read, steady>>,
             \A l \in Lists : Gpu[l] # Gpu[list] => OfGpu(shown, Gpu[l])' = OfGpu(shown, Gpu[l]),
             Group(list) \subseteq read => IsExactly(OfGpu(shown', Gpu[list]), OnLists(Group(list)))
      PROVE  Exact'
  <2> SUFFICES ASSUME NEW l \in Lists, Group(l) \subseteq read
               PROVE  IsExactly(OfGpu(shown, Gpu[l]), OnLists(Group(l)))'
    BY <1>f DEF Exact, AtGpu
  <2>1. OnLists(Group(l))' = OnLists(Group(l))
    BY <1>a, <1>f DEF Group
  <2>2. CASE Gpu[l] # Gpu[list]
    <3>1. IsExactly(OfGpu(shown, Gpu[l]), OnLists(Group(l)))
      BY <2>2 DEF Exact
    <3>2. OfGpu(shown, Gpu[l])' = OfGpu(shown, Gpu[l])
      BY <1>f, <2>2
    <3> QED BY <1>a, <1>f, <2>1, <3>1, <3>2 DEF IsExactly
  <2>3. CASE Gpu[l] = Gpu[list]
    <3>1. Group(l) = Group(list)
      BY <2>3 DEF Group
    <3>2. IsExactly(OfGpu(shown', Gpu[l]), OnLists(Group(l)))
      BY <1>f, <2>3, <3>1
    <3>3. OfGpu(shown, Gpu[l])' = OfGpu(shown', Gpu[l])
      BY DEF OfGpu
    <3> QED BY <1>a, <1>f, <2>1, <3>2, <3>3 DEF IsExactly
  <2> QED BY <2>2, <2>3
<1>1. CASE UNCHANGED vars
  BY <1>c, <1>1 DEF vars, nodeVars, processVars, sampleVars, cacheVars
<1>2. ASSUME NEW p \in Procs, Come(p) \/ Go(p) PROVE Exact'
  <2>1. read' = {} /\ steady' = FALSE /\ UNCHANGED <<step, list, raw>>
    BY <1>2 DEF Come, Go, NotSteady, sampleVars
  <2> QED BY <1>d, <2>1
<1>3. ASSUME NEW i \in Intervals, SetInterval(i) PROVE Exact'
  BY <1>c, <1>3 DEF SetInterval, nodeVars, processVars, sampleVars, cacheVars
<1>4. CASE Tick
  BY <1>c, <1>4 DEF Tick, sampleVars, cacheVars
<1>5. CASE BeginListing
  BY <1>d, <1>5 DEF BeginListing
<1>6. ASSUME NEW uuids \in SUBSET Gpus, BeginCached(uuids) PROVE Exact'
  <2>1. step = "idle" /\ step' = "nvml" /\ life' = life /\ UNCHANGED <<read, shown>>
    BY <1>6 DEF BeginCached, nodeVars, processVars, cacheVars
  <2> QED BY <1>b, <2>1 DEF Exact, AtGpu
<1>7. CASE Identify
  <2>1. step = "gpu" /\ step' = "count" /\ life' = life /\ UNCHANGED <<list, read, shown, raw>>
    BY <1>7 DEF Identify, nodeVars, processVars, cacheVars
  <2>2. Before(list) = {} /\ raw = {}
    BY <2>1 DEF Placed, Before
  <2>3. raw' = OnLists(Before(list))'
    <3>1. OnLists({})' = {}
      BY DEF OnLists
    <3> QED BY <2>1, <2>2, <3>1
  <2>4. \A l \in Lists : Group(l) \subseteq read' /\ (step' \in AtGpu => Gpu[l] # Gpu[list'])
                        => IsExactly(OfGpu(shown, Gpu[l]), OnLists(Group(l)))'
    BY <1>b, <2>1 DEF AtGpu
  <2> QED BY <2>1, <2>3, <2>4 DEF Exact
<1>8. CASE NoHandle
  <2>1. /\ step = "gpu" /\ UNCHANGED <<read, steady, shown>>
    BY <1>8 DEF NoHandle
  <2>2. life' = life /\ step' \in {"gpu", "nvml"}
    BY <1>0, <1>8, NextGpuGoes DEF NoHandle, processVars
  <2>3. ~(Group(list) \subseteq read)
    <3>1. list \in Group(list) /\ list \notin read
      BY <1>0, <2>1 DEF Group, ReadSoFar
    <3> QED BY <3>1
  <2>4. \A l \in Lists : OfGpu(shown, Gpu[l])' = OfGpu(shown, Gpu[l])
    BY <2>1 DEF OfGpu
  <2> QED BY <1>f, <2>1, <2>2, <2>3, <2>4
<1>9. CASE Count
  <2>1. /\ step = "count" /\ life' = life /\ UNCHANGED <<found, shown, steady, raw, uuid>>
    BY <1>9 DEF Count, nodeVars, processVars, cacheVars
  <2>2. CASE PidsOn(list) = {}
    <3>1. AfterList /\ read' = InFull
      BY <1>9, <2>2 DEF Count
    <3>2. raw' = raw \cup [gpu: {Gpu[list]}, pid: PidsOn(list), list: {list}]
      BY <2>1, <2>2
    <3>3. read' = read \/ read' = read \cup {list}
      BY <3>1 DEF InFull
    <3> QED BY <1>e, <2>1, <3>1, <3>2, <3>3
  <2>3. CASE PidsOn(list) # {}
    <3>1. step' = "fill" /\ list' = list /\ read' = read
      BY <1>9, <2>3 DEF Count
    <3>2. raw' = OnLists(Before(list))' \/ ~(Before(list') \subseteq read')
      BY <1>a, <2>1, <3>1 DEF Exact
    <3>3. \A l \in Lists : Group(l) \subseteq read' /\ (step' \in AtGpu => Gpu[l] # Gpu[list'])
                        => IsExactly(OfGpu(shown, Gpu[l]), OnLists(Group(l)))'
      BY <1>b, <2>1, <3>1 DEF AtGpu
    <3> QED BY <3>1, <3>2, <3>3 DEF Exact
  <2> QED BY <2>2, <2>3
<1>10. CASE Fill
  <2>1. /\ step = "fill" /\ AfterList /\ life' = life /\ UNCHANGED <<found, shown, steady, uuid>>
    BY <1>10 DEF Fill, nodeVars, processVars, cacheVars
  <2>2. \/ read' = read
        \/ read' = read \cup {list} /\ raw' = raw \cup [gpu: {Gpu[list]}, pid: PidsOn(list), list: {list}]
    BY <1>10 DEF Fill, InFull
  <2> QED BY <1>e, <2>1, <2>2
<1>11. CASE ListFails
  <2>1. /\ step \in {"count", "fill"} /\ AfterList /\ life' = life /\ UNCHANGED <<found, shown, steady, read>>
    BY <1>11 DEF ListFails, nodeVars, processVars, cacheVars
  <2> QED BY <1>e, <2>1
<1>12. CASE Detail
  <2>0. PICK e \in raw : \E start \in StartsOf(e.pid) :
                raw' = raw \ {e} /\ found' = found \cup {Detailed(e, start)}
    BY <1>12 DEF Detail
  <2>1. PICK start \in StartsOf(e.pid) : raw' = raw \ {e} /\ found' = found \cup {Detailed(e, start)}
    BY <2>0
  <2>2. life' = life /\ UNCHANGED <<step, list, said, shown, read, steady>> /\ step \in {"detail", "parse"}
    BY <1>12 DEF Detail, nodeVars, processVars, cacheVars
  <2>3. \A E : Partly(found, raw, E) => Partly(found', raw', E)
    BY <1>0, <2>1, PartlyFacts
  <2>4. step = "detail" /\ Group(list) \subseteq read => Partly(found, raw, OnLists(Group(list)))'
    <3>1. step = "detail" /\ Group(list) \subseteq read => Partly(found', raw', OnLists(Group(list)))
      BY <2>3 DEF Exact
    <3>2. OnLists(Group(list))' = OnLists(Group(list))
      BY <1>a, <2>2 DEF Group
    <3> QED BY <1>a, <2>2, <3>1, <3>2 DEF Partly
  <2>5. steady /\ step = "parse" => Partly(found, raw, OnLists(Lists \ Graphics))'
    <3>1. steady /\ step = "parse" => Partly(found', raw', OnLists(Lists \ Graphics))
      BY <2>3 DEF Exact
    <3>2. OnLists(Lists \ Graphics)' = OnLists(Lists \ Graphics)
      BY <1>a, <2>2
    <3> QED BY <1>a, <2>2, <3>1, <3>2 DEF Partly
  <2>6. \A l \in Lists : Group(l) \subseteq read' /\ (step' \in AtGpu => Gpu[l] # Gpu[list'])
                        => IsExactly(OfGpu(shown, Gpu[l]), OnLists(Group(l)))'
    BY <1>b, <2>2
  <2> QED BY <2>2, <2>4, <2>5, <2>6 DEF Exact, Group
<1>13. CASE Commit
  <2>1. /\ step = "detail" /\ raw = {} /\ shown' = {d \in shown : d.gpu # uuid} \cup found
        /\ UNCHANGED <<read, steady>>
    BY <1>13 DEF Commit, Kept
  <2>2. life' = life /\ step' \in {"gpu", "nvml"}
    BY <1>0, <1>13, NextGpuGoes DEF Commit, processVars
  <2>3. uuid \in {Gpu[list], NoUuid} /\ \A d \in found : d.gpu = uuid
    BY <2>1 DEF Placed, AtGpu
  <2>4. \A l \in Lists : Gpu[l] # Gpu[list] => OfGpu(shown, Gpu[l])' = OfGpu(shown, Gpu[l])
    BY <1>0, <2>1, <2>3 DEF OfGpu
  <2>5. ASSUME Group(list) \subseteq read
        PROVE  IsExactly(OfGpu(shown', Gpu[list]), OnLists(Group(list)))
    <3>1. list \in read
      BY <1>0, <2>5 DEF Group
    <3>2. uuid = Gpu[list]
      BY <2>1, <3>1 DEF ReadSoFar, AtGpu
    <3>3. OfGpu(shown', Gpu[list]) = found
      BY <2>1, <2>3, <3>2 DEF OfGpu
    <3>4. Partly(found, {}, OnLists(Group(list)))
      BY <2>1, <2>5 DEF Exact
    <3> QED BY <3>3, <3>4, PartlyFacts
  <2> QED BY <1>f, <2>1, <2>2, <2>4, <2>5
<1>14. CASE NvmlFails \/ RestartAgent
  BY <1>d, <1>14 DEF NvmlFails, RestartAgent, NotSteady
<1>15. CASE Query
  <2>1. life' = life /\ step = "query" /\ step' = "parse" /\ raw' = OnLists(Lists \ Graphics) /\ found' = {}
        /\ read' = {}
    BY <1>15 DEF Query, Placed, ReadSoFar, InSmi, nodeVars, processVars
  <2>2. raw' = OnLists(Lists \ Graphics)'
    BY <1>a, <2>1
  <2>3. Partly(found, raw, OnLists(Lists \ Graphics))'
    BY <2>1, <2>2 DEF Partly
  <2>4. \A l \in Lists : ~(Group(l) \subseteq read')
    BY <2>1, Groups
  <2> QED BY <2>1, <2>3, <2>4 DEF Exact
<1>16. CASE Parsed
  <2>1. life' = life /\ step = "parse" /\ step' = "smi" /\ raw = {} /\ said' = found /\ UNCHANGED steady
        /\ read' = {}
    BY <1>16 DEF Parsed, ReadSoFar, InSmi, nodeVars, processVars
  <2>2. steady => IsExactly(found, OnLists(Lists \ Graphics))
    BY <2>1, PartlyFacts DEF Exact
  <2>3. OnLists(Lists \ Graphics)' = OnLists(Lists \ Graphics)
    BY <1>a, <2>1
  <2>4. steady => IsExactly(said, OnLists(Lists \ Graphics))'
    BY <1>a, <2>1, <2>2, <2>3 DEF IsExactly
  <2>5. \A l \in Lists : ~(Group(l) \subseteq read')
    BY <2>1, Groups
  <2> QED BY <2>1, <2>4, <2>5 DEF Exact
<1>17. CASE QueryFails \/ Reuse \/ SmiFails
  <2>1. step \in {"query", "reuse"} /\ step' = "smi" /\ read' = read /\ steady' = steady
    BY <1>17 DEF QueryFails, Reuse, SmiFails
  <2>2. read' = {} /\ ~steady'
    BY <2>1 DEF ReadSoFar, InSmi
  <2> QED BY <1>d, <2>1, <2>2
<1>18. CASE Finish
  <2>1. step \notin AtGpu /\ step' = "idle" /\ life' = life /\ UNCHANGED <<read, shown>>
    BY <1>18 DEF Finish, AtGpu, processVars, cacheVars
  <2> QED BY <1>b, <2>1 DEF Exact
<1> QED BY <1>1, <1>2, <1>3, <1>4, <1>5, <1>6, <1>7, <1>8, <1>9, <1>10, <1>11, <1>12, <1>13, <1>14,
           <1>15, <1>16, <1>17, <1>18 DEF Next

\* Until a process comes or goes, a sample shows exactly the processes that run:
\* of every GPU it has by its name whose lists could be read, and in one of
\* nvidia-smi of all (SteadyListingIsExact).
THEOREM SteadyListingsAreExact == Spec => []SteadyListingIsExact
<1> DEFINE Inv == Placed /\ Named /\ ReadSoFar /\ Exact
<1>1. Init => Inv
  <2>1. \A l \in Lists : ~(Group(l) \subseteq {})
    BY Groups
  <2> QED BY <2>1 DEF Init, Placed, Named, ReadSoFar, Exact, Listing, AtGpu, InSmi
<1>2. TypeOK /\ Inv /\ [Next]_vars => Inv'
  BY PlacedKept, NamedKept, ReadSoFarKept, ExactKept
<1>3. Inv => SteadyListingIsExact
  <2> SUFFICES ASSUME Inv, step = "nvml", NEW g \in named \ {NoUuid}, {l \in Lists : Gpu[l] = g} \subseteq read
               PROVE  IsExactly({d \in said : d.gpu = g}, OnLists({l \in Lists : Gpu[l] = g}))
    BY DEF SteadyListingIsExact, Exact
  <2>1. {d \in said : d.gpu = g} = OfGpu(shown, g)
    BY DEF Named, OfGpu
  <2>2. ASSUME NEW i \in Lists, Gpu[i] = g
        PROVE  IsExactly(OfGpu(shown, g), OnLists({l \in Lists : Gpu[l] = g}))
    <3>1. Group(i) = {l \in Lists : Gpu[l] = g}
      BY <2>2 DEF Group
    <3> QED BY <2>2, <3>1 DEF Exact, AtGpu
  <2>3. ASSUME ~ \E i \in Lists : Gpu[i] = g
        PROVE  OfGpu(shown, g) = {} /\ {l \in Lists : Gpu[l] = g} = {}
    BY <2>3 DEF Named, OfGpu
  <2>4. IsExactly({}, OnLists({}))
    BY DEF IsExactly, OnLists
  <2> QED BY <2>1, <2>2, <2>3, <2>4
<1> QED BY <1>1, <1>2, <1>3, TypeHolds, PTL DEF Spec
=============================================================================
