------------------------ MODULE NodeProcessesProofs ------------------------
(***************************************************************************)
(* Lemmas about NodeProcesses, for every set of processes: what is known   *)
(* of a session stays known while processes come and go and time passes.   *)
(***************************************************************************)
EXTENDS NodeProcesses, TLAPS

USE ProcessesAssumption

LEMMA SessionInKeys ==
  ASSUME NEW d \in Details
  PROVE  SessionOf(d) \in Keys
BY DEF SessionOf, Keys, Details

LEMMA BoundsAreNumbers == Fresh \in Nat /\ Refresh + Slow \in Nat /\ Longest + Slow \in Nat
BY DEF Fresh

\* A step of a process, or of time.
Lives ==
  /\ now' \in Times
  /\ now <= now'
  /\ \/ UNCHANGED <<life, died>>
     \/ \E p \in Procs : Start(p) \/ Exit(p)

LEMMA NodeTypeKept ==
  ASSUME NodeTypeOK, Lives, UNCHANGED <<sampled, newest, ghosts>>
  PROVE  NodeTypeOK'
<1>1. CASE UNCHANGED <<life, died>>
  BY <1>1 DEF NodeTypeOK, Lives
<1>2. ASSUME NEW p \in Procs, Start(p) PROVE NodeTypeOK'
  BY <1>2 DEF NodeTypeOK, Lives, Start
<1>3. ASSUME NEW p \in Procs, Exit(p) PROVE NodeTypeOK'
  BY <1>3 DEF NodeTypeOK, Lives, Exit
<1> QED BY <1>1, <1>2, <1>3 DEF Lives

\* What was alive not before `at` is so for good, whatever earlier time is asked for.
LEMMA AliveSinceKept ==
  ASSUME NodeTypeOK, Lives, NEW k, NEW at \in Int, at <= now, NEW from \in Int, from <= at,
         AliveSince(k, at)
  PROVE  AliveSince(k, from)'
<1>1. PICK p \in Candidates(k) : Alive(p) \/ (life[p] = "gone" /\ died[p] >= at)
  BY DEF AliveSince
<1>2. p \in Procs /\ died[p] \in Int
  BY DEF Candidates, NodeTypeOK, Times
<1>3. Candidates(k)' = Candidates(k)
  BY DEF Candidates
<1>4. CASE UNCHANGED <<life, died>>
  BY <1>1, <1>2, <1>3, <1>4 DEF AliveSince, Alive
<1>5. ASSUME NEW q \in Procs, Start(q) PROVE AliveSince(k, from)'
  BY <1>1, <1>2, <1>3, <1>5 DEF AliveSince, Alive, Start, NodeTypeOK
<1>6. ASSUME NEW q \in Procs, Exit(q) PROVE AliveSince(k, from)'
  <2>1. CASE q = p
    <3>1. life'[p] = "gone" /\ died'[p] = now
      BY <1>2, <1>6, <2>1 DEF Exit, NodeTypeOK
    <3>2. now \in Int
      BY DEF NodeTypeOK, Times
    <3> QED BY <1>1, <1>3, <3>1, <3>2 DEF AliveSince
  <2>2. CASE q # p
    BY <1>1, <1>2, <1>3, <1>6, <2>2 DEF AliveSince, Alive, Exit, NodeTypeOK
  <2> QED BY <2>1, <2>2
<1> QED BY <1>4, <1>5, <1>6 DEF Lives

\* The same within a state.
LEMMA AliveSinceEarlier ==
  ASSUME NodeTypeOK, NEW k, NEW at \in Int, NEW from \in Int, from <= at, AliveSince(k, at)
  PROVE  AliveSince(k, from)
<1>1. PICK p \in Candidates(k) : Alive(p) \/ (life[p] = "gone" /\ died[p] >= at)
  BY DEF AliveSince
<1>2. p \in Procs /\ died[p] \in Int
  BY DEF Candidates, NodeTypeOK, Times
<1> QED BY <1>1, <1>2 DEF AliveSince

LEMMA GoneForGood ==
  ASSUME NodeTypeOK, Lives, NEW p \in Procs, life[p] = "gone"
  PROVE  life'[p] = "gone"
<1>1. CASE UNCHANGED <<life, died>>
  BY <1>1
<1>2. ASSUME NEW q \in Procs, Start(q) PROVE life'[p] = "gone"
  BY <1>2 DEF Start, NodeTypeOK
<1>3. ASSUME NEW q \in Procs, Exit(q) PROVE life'[p] = "gone"
  BY <1>3 DEF Exit, NodeTypeOK
<1> QED BY <1>1, <1>2, <1>3 DEF Lives

\* A session that has been seen has been so for good.
LEMMA HeardKept ==
  ASSUME NodeTypeOK, Lives
  PROVE  Heard \subseteq Heard'
<1> SUFFICES ASSUME NEW k \in Keys, NEW p \in Candidates(k), life[p] # "unborn" PROVE life'[p] # "unborn"
  BY DEF Heard, Candidates
<1>0. p \in Procs
  BY DEF Candidates
<1>1. CASE UNCHANGED <<life, died>>
  BY <1>1
<1>2. ASSUME NEW q \in Procs, Start(q) \/ Exit(q) PROVE life'[p] # "unborn"
  BY <1>0, <1>2 DEF Start, Exit, NodeTypeOK
<1> QED BY <1>1, <1>2 DEF Lives

LEMMA NamelessKept ==
  ASSUME NodeTypeOK, Lives, NEW d, MayBeNameless(d)
  PROVE  MayBeNameless(d)'
BY GoneForGood DEF MayBeNameless
=============================================================================
