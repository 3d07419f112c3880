------------------------------- MODULE DkgProofs -------------------------------
(***************************************************************************)
(* Proofs about the networked key generation, for any number of            *)
(* participants, runs and faults.                                          *)
(*                                                                         *)
(* A snapshot of p is a complete set of round-one packages one of p's runs *)
(* collected, as far as anyone may still see it: p holds it, or p's        *)
(* round-two post at the relay or on its way there was made from it.       *)
(***************************************************************************)
EXTENDS Dkg, FiniteSetTheorems, TLAPS

Views == [Participants -> Runs]

Snapshot(p, s) ==
  /\ Complete(s)
  /\ \/ s = seen[p]
     \/ s = r2[p]
     \/ \E post \in late : post.from = p /\ post.seen = s

(* A run is not known before it has begun, and knows itself. *)
Known ==
  \A p, q \in Participants :
    /\ r1[q] <= run[q] /\ seen[p][q] <= run[q] /\ r2[p][q] <= run[q]
    /\ \A post \in late : post.seen[q] <= run[q]
    /\ seen[p][p] = run[p]

(* From round two on a run holds everyone's packages; it posts no less. *)
Fetched ==
  /\ \A p \in Participants :
       /\ phase[p] \in {"round2", "poll2", "done"} => Complete(seen[p])
       /\ r2[p] = NoPost \/ Complete(r2[p])
  /\ \A post \in late : post.round = "round2" => Complete(post.seen)

Collecting(p) == phase[p] \in {"round1", "poll1"}

(* A run collects one snapshot, and none before it has fetched round one. *)
OneEach ==
  \A p \in Participants : \A s \in Views : Snapshot(p, s) =>
    /\ \A t \in Views : Snapshot(p, t) /\ s[p] = t[p] => s = t
    /\ s[p] = run[p] => ~Collecting(p)

(* When p has seen a later run of q than the one that collected t, then t was there
   first: it has seen no later run of p. *)
InOrder ==
  \A p, q \in Participants : \A s, t \in Views :
    Snapshot(p, s) /\ Snapshot(q, t) /\ t[q] < s[q] => t[p] <= s[p]

(* What a participant that is done knows of the others for good: no run of its own saw
   a later run of q; the run of q it took a package from collected its snapshot, and
   with this run's package in it. *)
Settled ==
  \A p, q \in Participants : Done(p) =>
    /\ \A s \in Views : Snapshot(p, s) => s[q] <= seen[p][q]
    /\ \A t \in Views : Snapshot(q, t) /\ t[q] = seen[p][q] => t[p] = run[p]
    /\ run[q] = seen[p][q] => ~Collecting(q)

IInv ==
  TypeOK /\ Known /\ Fetched /\ OneEach /\ InOrder /\ Settled /\ MutualView

-----------------------------------------------------------------------------

(* A participant's first packages, and a relay without any, are views. *)
LEMMA ViewsTyped ==
  ASSUME NEW p \in Participants, NEW r \in Runs
  PROVE  /\ Part1(Participants, p, r) \in Views
         /\ NoPost \in Views
BY DkgAssumption DEF Part1, NoPost, NoPackage, Views, Runs, Participants

(* Everyone has a peer, so the first packages are not yet complete, nor is no post. *)
LEMMA FirstIsIncomplete ==
  ASSUME NEW p \in Participants, NEW r \in Runs
  PROVE  ~Complete(Part1(Participants, p, r)) /\ ~Complete(NoPost)
<1>1. PICK q \in Participants : q # p
  BY DkgAssumption DEF Participants
<1>2. /\ DOMAIN Part1(Participants, p, r) = Participants
      /\ Part1(Participants, p, r)[q] = NoPackage
  BY <1>1 DEF Part1
<1>3. DOMAIN NoPost = Participants /\ NoPost[q] = NoPackage
  BY DEF NoPost
<1>. QED
  BY <1>2, <1>3 DEF Complete

(* Type correctness: the fields of every participant and of the relay keep their
   shapes (dkg_net.rs, DkgParticipant and Relay). *)
THEOREM TypeCorrect == Spec => []TypeOK
<1>1. Init => TypeOK
  <2>1. 1 \in Runs /\ 1 \in 1 .. MaxRuns /\ 0 \in 0 .. MaxFaults
    BY DkgAssumption DEF Runs
  <2>. QED
    BY <2>1, ViewsTyped DEF Init, TypeOK, NoPost, NoPackage, Runs, Views
<1>2. TypeOK /\ [Next]_vars => TypeOK'
  <2> SUFFICES ASSUME TypeOK, [Next]_vars
               PROVE  TypeOK'
    OBVIOUS
  <2>. USE DEF TypeOK
  <2>1. ASSUME NEW p \in Participants, PostRound1(p)
        PROVE  TypeOK'
    BY <2>1 DEF PostRound1, Handle, Post, Move
  <2>2. ASSUME NEW p \in Participants, PostRound2(p)
        PROVE  TypeOK'
    BY <2>2 DEF PostRound2, Handle, Post, Move
  <2>3. ASSUME NEW p \in Participants, FetchRound1(p)
        PROVE  TypeOK'
    BY <2>3 DEF FetchRound1, Move
  <2>4. ASSUME NEW p \in Participants, FetchRound2(p)
        PROVE  TypeOK'
    BY <2>4 DEF FetchRound2, Move
  <2>5. ASSUME NEW p \in Participants, PollTimesOut(p)
        PROVE  TypeOK'
    BY <2>5 DEF PollTimesOut, Move
  <2>6. ASSUME NEW p \in Participants, Interrupted(p)
        PROVE  TypeOK'
    <3>1. late' \in SUBSET [round : {"round1", "round2"}, from : Participants,
                            seen : [Participants -> Runs]]
      BY <2>6 DEF Interrupted, Post
    <3>2. faults' \in 0 .. MaxFaults
      BY <2>6, DkgAssumption DEF Interrupted
    <3>. QED
      BY <2>6, <3>1, <3>2 DEF Interrupted, Move
  <2>7. CASE LatePost
    <3>1. PICK post \in late : Handle(post) /\ late' = late \ {post}
                               /\ UNCHANGED <<phase, run, seen, faults>>
      BY <2>7 DEF LatePost
    <3>2. post.from \in Participants /\ post.seen \in [Participants -> Runs]
      OBVIOUS
    <3>3. r1' \in [Participants -> Runs] /\ r2' \in [Participants -> [Participants -> Runs]]
      BY <3>1, <3>2 DEF Handle
    <3>. QED
      BY <3>1, <3>3
  <2>8. ASSUME NEW p \in Participants, RunAgain(p)
        PROVE  TypeOK'
    <3>1. run[p] + 1 \in 1 .. MaxRuns /\ run[p] + 1 \in Runs
      BY <2>8, DkgAssumption DEF RunAgain, Runs
    <3>. QED
      BY <2>8, <3>1, ViewsTyped DEF RunAgain, Move, Views
  <2>9. CASE RelayRestarts
    <3>1. faults' \in 0 .. MaxFaults
      BY <2>9, DkgAssumption DEF RelayRestarts
    <3>2. NoPost \in [Participants -> Runs]
      BY DkgAssumption DEF NoPost, NoPackage, Runs
    <3>. QED
      BY <2>9, <3>1, <3>2 DEF RelayRestarts
  <2>10. CASE UNCHANGED vars
    BY <2>10 DEF vars
  <2>. QED
    BY <2>1, <2>2, <2>3, <2>4, <2>5, <2>6, <2>7, <2>8, <2>9, <2>10 DEF Next, Progress
<1>. QED
  BY <1>1, <1>2, PTL DEF Spec

-----------------------------------------------------------------------------

(* A snapshot is a view of runs that have begun. *)
LEMMA SnapshotKnown ==
  ASSUME TypeOK, Known, NEW p \in Participants, NEW s \in Views, Snapshot(p, s),
         NEW q \in Participants
  PROVE  s[q] \in Nat /\ s[q] <= run[q]
BY DEF TypeOK, Known, Snapshot, Views, Runs

(* A step that makes no snapshot, finishes nobody and at most starts runs keeps what is
   said of snapshots. *)
LEMMA Steady ==
  ASSUME TypeOK, TypeOK', IInv,
         \A p \in Participants : \A s \in Views : Snapshot(p, s)' => Snapshot(p, s),
         \A p \in Participants :
           Done(p)' => Done(p) /\ seen'[p] = seen[p] /\ run'[p] = run[p],
         \A p \in Participants :
           \/ run'[p] = run[p] /\ (Collecting(p)' => Collecting(p))
           \/ run'[p] = run[p] + 1
  PROVE  OneEach' /\ InOrder' /\ Settled' /\ MutualView'
<1>. USE DEF IInv
<1>1. \A p \in Participants : run[p] \in Nat
  BY DEF TypeOK
<1>2. OneEach'
  <2> SUFFICES ASSUME NEW p \in Participants, NEW s \in Views, Snapshot(p, s)'
               PROVE  /\ \A t \in Views : Snapshot(p, t)' /\ s[p] = t[p] => s = t
                      /\ s[p] = run'[p] => ~Collecting(p)'
    BY DEF OneEach
  <2>1. Snapshot(p, s)
    OBVIOUS
  <2>2. s[p] \in Nat /\ s[p] <= run[p]
    BY <2>1, SnapshotKnown
  <2>3. \A t \in Views : Snapshot(p, t)' /\ s[p] = t[p] => s = t
    BY <2>1 DEF OneEach
  <2>4. s[p] = run'[p] => ~Collecting(p)'
    BY <1>1, <2>1, <2>2 DEF OneEach
  <2>. QED
    BY <2>3, <2>4
<1>3. InOrder'
  BY DEF InOrder
<1>4. Settled'
  <2> SUFFICES ASSUME NEW p \in Participants, NEW q \in Participants, Done(p)'
               PROVE  /\ \A s \in Views : Snapshot(p, s)' => s[q] <= seen'[p][q]
                      /\ \A t \in Views : Snapshot(q, t)' /\ t[q] = seen'[p][q]
                                            => t[p] = run'[p]
                      /\ run'[q] = seen'[p][q] => ~Collecting(q)'
    BY DEF Settled
  <2>1. Done(p) /\ seen'[p] = seen[p] /\ run'[p] = run[p]
    OBVIOUS
  <2>2. seen[p][q] \in Nat /\ seen[p][q] <= run[q]
    BY DEF TypeOK, Known, Runs
  <2>3. run'[q] = seen[p][q] => run'[q] = run[q]
    BY <1>1, <2>2
  <2>4. run'[q] = seen'[p][q] => ~Collecting(q)'
    BY <1>1, <2>1, <2>2, <2>3 DEF Settled
  <2>5. \A s \in Views : Snapshot(p, s)' => s[q] <= seen'[p][q]
    BY <2>1 DEF Settled
  <2>6. \A t \in Views : Snapshot(q, t)' /\ t[q] = seen'[p][q] => t[p] = run'[p]
    BY <2>1 DEF Settled
  <2>. QED
    BY <2>4, <2>5, <2>6
<1>5. MutualView'
  BY DEF MutualView
<1>. QED
  BY <1>2, <1>3, <1>4, <1>5

(* Fetching round one makes a snapshot of the present run, which no participant that
   is done took for a run that had finished collecting. *)
LEMMA FetchKeeps ==
  ASSUME TypeOK, TypeOK', IInv, Known', NEW p \in Participants, FetchRound1(p),
         Complete(seen'[p])
  PROVE  OneEach' /\ InOrder' /\ Settled' /\ MutualView'
<1>. USE DEF IInv
<1>. DEFINE new == seen'[p]
<1>1. /\ phase[p] = "poll1" /\ phase' = [phase EXCEPT ![p] = "round2"]
      /\ UNCHANGED <<run, r2, late>>
      /\ \A q \in Participants \ {p} : seen'[q] = seen[q]
  BY DEF FetchRound1, Move, TypeOK
<1>2. new \in Views /\ new[p] = run[p] /\ \A q \in Participants : new[q] <= run[q]
  BY <1>1 DEF TypeOK, Known, Views
<1>3. \A q \in Participants : \A s \in Views :
        Snapshot(q, s)' => Snapshot(q, s) \/ (q = p /\ s = new)
  BY <1>1 DEF Snapshot
<1>4. \A s \in Views : Snapshot(p, s) => s[p] \in Nat /\ s[p] <= run[p] /\ s[p] # run[p]
  BY <1>1, SnapshotKnown DEF OneEach, Collecting
<1>5. \A q \in Participants : /\ run[q] \in Nat
                              /\ Collecting(q)' => Collecting(q)
                              /\ Done(q)' => Done(q) /\ q # p /\ seen'[q] = seen[q]
  BY <1>1 DEF TypeOK, Collecting, Done
<1>6. OneEach'
  <2>1. \A s, t \in Views : Snapshot(p, s)' /\ Snapshot(p, t)' /\ s[p] = t[p] => s = t
    BY <1>2, <1>3, <1>4 DEF OneEach
  <2>2. ~Collecting(p)'
    BY <1>1 DEF Collecting, TypeOK
  <2>. QED
    BY <1>1, <1>3, <1>5, <2>1, <2>2 DEF OneEach
<1>7. InOrder'
  <2> SUFFICES ASSUME NEW x \in Participants, NEW y \in Participants,
                      NEW s \in Views, NEW t \in Views,
                      Snapshot(x, s)', Snapshot(y, t)', t[y] < s[y]
               PROVE  t[x] <= s[x]
    BY DEF InOrder
  <2>1. /\ s[y] \in Nat /\ s[y] <= run[y] /\ s[x] \in Nat
        /\ t[x] \in Nat /\ t[x] <= run[x] /\ t[y] \in Nat
    BY <1>1, <1>2, <1>3, SnapshotKnown DEF Views, Runs
  <2>2. CASE Snapshot(x, s) /\ Snapshot(y, t)
    BY <2>2 DEF InOrder
  <2>3. CASE x = p /\ s = new
    BY <1>2, <2>1, <2>3
  <2>4. CASE y = p /\ t = new
    BY <1>2, <1>5, <2>1, <2>4
  <2>. QED
    BY <1>3, <2>2, <2>3, <2>4
<1>8. Settled'
  <2> SUFFICES ASSUME NEW x \in Participants, NEW y \in Participants, Done(x)'
               PROVE  /\ \A s \in Views : Snapshot(x, s)' => s[y] <= seen'[x][y]
                      /\ \A t \in Views : Snapshot(y, t)' /\ t[y] = seen'[x][y]
                                            => t[x] = run'[x]
                      /\ run'[y] = seen'[x][y] => ~Collecting(y)'
    BY DEF Settled
  <2>1. Done(x) /\ x # p /\ seen'[x] = seen[x]
    BY <1>5
  <2>2. seen[x][p] # run[p]
    BY <1>1, <2>1 DEF Settled, Collecting
  <2>. QED
    BY <1>1, <1>2, <1>3, <1>5, <2>1, <2>2 DEF Settled
<1>9. MutualView'
  BY <1>1, <1>5 DEF MutualView
<1>. QED
  BY <1>6, <1>7, <1>8, <1>9

(* Finishing: what each peer sealed to this run is from its present snapshot, and says
   which of this participant's runs the peer has seen. *)
LEMMA FinishKeeps ==
  ASSUME TypeOK, TypeOK', IInv, NEW p \in Participants, FetchRound2(p),
         Part3Fits(p, seen[p], SealedTo(p))
  PROVE  OneEach' /\ InOrder' /\ Settled' /\ MutualView'
<1>. USE DEF IInv
<1>1. /\ phase[p] = "poll2" /\ phase' = [phase EXCEPT ![p] = "done"]
      /\ UNCHANGED <<run, seen, r1, r2, late>>
  BY DEF FetchRound2, Move
<1>2. \A q \in Participants : \A s \in Views : Snapshot(q, s)' <=> Snapshot(q, s)
  BY <1>1 DEF Snapshot
<1>3. \A q \in Participants :
        /\ run[q] \in Nat
        /\ Collecting(q)' => Collecting(q)
        /\ Done(q)' /\ q # p => Done(q)
  BY <1>1 DEF TypeOK, Collecting, Done
<1>4. \A q \in Participants \ {p} : r2[q][q] = seen[p][q] /\ r2[q][p] = run[p]
  BY DEF Part3Fits, SealedTo, Sealed, Opens, TypeOK, Known
<1>5. Snapshot(p, seen[p]) /\ seen[p] \in Views /\ seen[p][p] = run[p]
  BY <1>1 DEF Fetched, Snapshot, TypeOK, Known, Views
<1>6. \A q \in Participants \ {p} : Snapshot(q, r2[q]) /\ r2[q] \in Views
  <2> SUFFICES ASSUME NEW q \in Participants \ {p}
               PROVE  Snapshot(q, r2[q]) /\ r2[q] \in Views
    OBVIOUS
  <2>1. seen[p][q] # NoPackage
    BY <1>5 DEF Snapshot, Complete, Views
  <2>2. r2[q] # NoPost
    BY <1>4, <2>1 DEF NoPost
  <2>. QED
    BY <2>2 DEF Fetched, Snapshot, TypeOK, Views
<1>7. OneEach' /\ InOrder'
  BY <1>1, <1>2, <1>3 DEF OneEach, InOrder
<1>8. ASSUME NEW q \in Participants
      PROVE  /\ \A s \in Views : Snapshot(p, s) => s[q] <= seen[p][q]
             /\ \A t \in Views : Snapshot(q, t) /\ t[q] = seen[p][q] => t[p] = run[p]
             /\ run[q] = seen[p][q] => ~Collecting(q)
  <2>1. CASE q = p
    <3>1. \A s \in Views : Snapshot(p, s) => s[p] <= run[p]
      BY SnapshotKnown
    <3>. QED
      BY <1>1, <1>5, <2>1, <3>1 DEF Collecting
  <2>2. CASE q # p
    <3>1. \A s \in Views : Snapshot(p, s) => s[q] <= seen[p][q]
      <4> SUFFICES ASSUME NEW s \in Views, Snapshot(p, s), ~(s[q] <= seen[p][q])
                   PROVE  FALSE
        OBVIOUS
      <4>1. s[q] \in Nat /\ s[p] \in Nat /\ s[p] <= run[p] /\ seen[p][q] \in Nat
        BY <1>5, SnapshotKnown
      <4>2. r2[q][p] <= s[p]
        BY <1>4, <1>6, <2>2, <4>1 DEF InOrder
      <4>3. s[p] = run[p]
        BY <1>3, <1>4, <2>2, <4>1, <4>2
      <4>4. s = seen[p]
        BY <1>5, <4>3 DEF OneEach
      <4>. QED
        BY <4>1, <4>4
    <3>2. \A t \in Views : Snapshot(q, t) /\ t[q] = seen[p][q] => t[p] = run[p]
      BY <1>4, <1>6, <2>2 DEF OneEach
    <3>3. run[q] = seen[p][q] => ~Collecting(q)
      BY <1>4, <1>6, <2>2 DEF OneEach
    <3>. QED
      BY <3>1, <3>2, <3>3
  <2>. QED
    BY <2>1, <2>2
<1>9. Settled'
  BY <1>1, <1>2, <1>3, <1>8 DEF Settled
<1>10. ASSUME NEW q \in Participants, Done(q), q # p
       PROVE  seen[p][q] = run[q] /\ seen[q][p] = run[p]
  <2>1. run[p] <= seen[q][p] /\ seen[q][p] <= run[p] /\ seen[q][p] \in Nat
    BY <1>4, <1>6, <1>10 DEF Settled, TypeOK, Known, Runs
  <2>2. seen[q][p] = run[p]
    BY <1>3, <2>1
  <2>. QED
    BY <1>5, <1>10, <2>2 DEF Settled
<1>11. MutualView'
  BY <1>1, <1>3, <1>5, <1>10 DEF MutualView
<1>. QED
  BY <1>7, <1>9, <1>11

(* Every step keeps runs known only once they have begun. *)
LEMMA KnownKept ==
  ASSUME TypeOK, IInv, [Next]_vars
  PROVE  Known'
<1>. USE DEF IInv
<1>. USE DEF TypeOK, Known
<1>0. \A q \in Participants : run[q] \in Nat /\ r1[q] \in Nat /\ NoPackage <= run[q]
  BY DEF Runs, NoPackage
<1>1. ASSUME NEW post, NEW p \in Participants, Handle(post), post.from = p,
             post.seen \in Views, \A q \in Participants : post.seen[q] <= run[q]
      PROVE  \A x, q \in Participants : r1'[q] <= run[q] /\ r2'[x][q] <= run[q]
  BY <1>1 DEF Handle, Views
<1>2. ASSUME NEW p \in Participants, PostRound1(p)
      PROVE  Known'
  <2>1. Handle(Post(p)) /\ Post(p).from = p /\ Post(p).seen = seen[p]
    BY <1>2 DEF PostRound1, Post
  <2>. QED
    BY <1>1, <1>2, <2>1 DEF PostRound1, Views
<1>3. ASSUME NEW p \in Participants, PostRound2(p)
      PROVE  Known'
  <2>1. Handle(Post(p)) /\ Post(p).from = p /\ Post(p).seen = seen[p]
    BY <1>3 DEF PostRound2, Post
  <2>. QED
    BY <1>1, <1>3, <2>1 DEF PostRound2, Views
<1>4. ASSUME NEW p \in Participants, FetchRound1(p)
      PROVE  Known'
  BY <1>4 DEF FetchRound1
<1>5. ASSUME NEW p \in Participants, FetchRound2(p) \/ PollTimesOut(p)
      PROVE  Known'
  BY <1>5 DEF FetchRound2, PollTimesOut
<1>6. ASSUME NEW p \in Participants, Interrupted(p)
      PROVE  Known'
  BY <1>6 DEF Interrupted, Post
<1>7. CASE LatePost
  <2>1. PICK post \in late : Handle(post) /\ late' = late \ {post}
                             /\ UNCHANGED <<phase, run, seen, faults>>
    BY <1>7 DEF LatePost
  <2>. QED
    BY <1>1, <2>1 DEF Views
<1>8. ASSUME NEW p \in Participants, RunAgain(p)
      PROVE  Known'
  <2>1. run' = [run EXCEPT ![p] = run[p] + 1] /\ UNCHANGED <<r1, r2, late>>
        /\ seen' = [seen EXCEPT ![p] = Part1(Participants, p, run[p] + 1)]
    BY <1>8 DEF RunAgain
  <2>2. \A q \in Participants : run[q] <= run'[q] /\ run'[q] \in Nat
    BY <1>0, <2>1
  <2>3. \A q \in Participants : seen'[p][q] <= run'[q] /\ seen'[p][p] = run'[p]
    BY <1>0, <2>1 DEF Part1, NoPackage
  <2>. QED
    BY <1>0, <2>1, <2>2, <2>3 DEF Runs
<1>9. CASE RelayRestarts
  BY <1>0, <1>9 DEF RelayRestarts, NoPost
<1>10. CASE UNCHANGED vars
  BY <1>10 DEF vars
<1>. QED
  BY <1>2, <1>3, <1>4, <1>5, <1>6, <1>7, <1>8, <1>9, <1>10 DEF Next, Progress

(* Every step keeps what is posted complete from round two on. *)
LEMMA FetchedKept ==
  ASSUME TypeOK, IInv, [Next]_vars
  PROVE  Fetched'
<1>. USE DEF IInv
<1>. USE DEF TypeOK, Fetched
<1>1. ASSUME NEW p \in Participants, PostRound1(p)
      PROVE  Fetched'
  BY <1>1 DEF PostRound1, Handle, Post, Move
<1>2. ASSUME NEW p \in Participants, PostRound2(p)
      PROVE  Fetched'
  BY <1>2 DEF PostRound2, Handle, Post, Move
<1>3. ASSUME NEW p \in Participants, FetchRound1(p)
      PROVE  Fetched'
  BY <1>3 DEF FetchRound1, Move
<1>4. ASSUME NEW p \in Participants, FetchRound2(p) \/ PollTimesOut(p)
      PROVE  Fetched'
  BY <1>4 DEF FetchRound2, PollTimesOut, Move
<1>5. ASSUME NEW p \in Participants, Interrupted(p)
      PROVE  Fetched'
  BY <1>5 DEF Interrupted, Post, Move
<1>6. CASE LatePost
  BY <1>6 DEF LatePost, Handle
<1>7. ASSUME NEW p \in Participants, RunAgain(p)
      PROVE  Fetched'
  BY <1>7 DEF RunAgain, Move
<1>8. CASE RelayRestarts
  BY <1>8 DEF RelayRestarts
<1>9. CASE UNCHANGED vars
  BY <1>9 DEF vars
<1>. QED
  BY <1>1, <1>2, <1>3, <1>4, <1>5, <1>6, <1>7, <1>8, <1>9 DEF Next, Progress

(* The inductive step: but for a fetch of round one and a finish, steps are steady. *)
LEMMA Inductive ==
  ASSUME TypeOK, TypeOK', IInv, [Next]_vars
  PROVE  IInv'
<1>. DEFINE Rest == OneEach' /\ InOrder' /\ Settled' /\ MutualView'
<1>1. Known' /\ Fetched'
  BY KnownKept, FetchedKept
<1>. SUFFICES Rest
  BY <1>1 DEF IInv
<1>2. ASSUME NEW p \in Participants, PostRound1(p)
      PROVE  Rest
  <2>1. \A q \in Participants : \A s \in Views : Snapshot(q, s)' => Snapshot(q, s)
    BY <1>2 DEF PostRound1, Handle, Post, Snapshot, TypeOK
  <2>2. /\ UNCHANGED <<run, seen>>
        /\ \A q \in Participants : /\ Done(q)' => Done(q)
                                   /\ Collecting(q)' => Collecting(q)
    BY <1>2 DEF PostRound1, Move, Done, Collecting, TypeOK
  <2>. QED
    BY <2>1, <2>2, Steady
<1>3. ASSUME NEW p \in Participants, PostRound2(p)
      PROVE  Rest
  <2>1. \A q \in Participants : \A s \in Views : Snapshot(q, s)' => Snapshot(q, s)
    BY <1>3 DEF PostRound2, Handle, Post, Snapshot, TypeOK
  <2>2. /\ UNCHANGED <<run, seen>>
        /\ \A q \in Participants : /\ Done(q)' => Done(q)
                                   /\ Collecting(q)' => Collecting(q)
    BY <1>3 DEF PostRound2, Move, Done, Collecting, TypeOK
  <2>. QED
    BY <2>1, <2>2, Steady
<1>4. ASSUME NEW p \in Participants, FetchRound1(p)
      PROVE  Rest
  <2>1. CASE Complete(seen'[p])
    BY <1>1, <1>4, <2>1, FetchKeeps
  <2>2. CASE ~Complete(seen'[p])
    <3>1. /\ phase' = [phase EXCEPT ![p] = "failed"]
          /\ UNCHANGED <<run, r2, late>>
          /\ \A q \in Participants \ {p} : seen'[q] = seen[q]
      BY <1>4, <2>2 DEF FetchRound1, Move, TypeOK
    <3>2. \A q \in Participants : \A s \in Views : Snapshot(q, s)' => Snapshot(q, s)
      BY <2>2, <3>1 DEF Snapshot
    <3>3. \A q \in Participants : /\ Done(q)' => Done(q) /\ seen'[q] = seen[q]
                                  /\ Collecting(q)' => Collecting(q)
      BY <3>1 DEF Done, Collecting, TypeOK
    <3>. QED
      BY <3>1, <3>2, <3>3, Steady
  <2>. QED
    BY <2>1, <2>2
<1>5. ASSUME NEW p \in Participants, FetchRound2(p)
      PROVE  Rest
  <2>1. CASE Part3Fits(p, seen[p], SealedTo(p))
    BY <1>5, <2>1, FinishKeeps
  <2>2. CASE ~Part3Fits(p, seen[p], SealedTo(p))
    <3>1. /\ phase' = [phase EXCEPT ![p] = "failed"]
          /\ UNCHANGED <<run, seen, r2, late>>
      BY <1>5, <2>2 DEF FetchRound2, Move
    <3>2. \A q \in Participants : /\ Done(q)' => Done(q)
                                  /\ Collecting(q)' => Collecting(q)
      BY <3>1 DEF Done, Collecting, TypeOK
    <3>3. \A q \in Participants : \A s \in Views : Snapshot(q, s)' => Snapshot(q, s)
      BY <3>1 DEF Snapshot
    <3>. QED
      BY <3>1, <3>2, <3>3, Steady
  <2>. QED
    BY <2>1, <2>2
<1>6. ASSUME NEW p \in Participants, PollTimesOut(p)
      PROVE  Rest
  <2>1. \A q \in Participants : \A s \in Views : Snapshot(q, s)' => Snapshot(q, s)
    BY <1>6 DEF PollTimesOut, Snapshot
  <2>2. /\ UNCHANGED <<run, seen>>
        /\ \A q \in Participants : /\ Done(q)' => Done(q)
                                   /\ Collecting(q)' => Collecting(q)
    BY <1>6 DEF PollTimesOut, Move, Done, Collecting, TypeOK
  <2>. QED
    BY <2>1, <2>2, Steady
<1>7. ASSUME NEW p \in Participants, Interrupted(p)
      PROVE  Rest
  <2>1. \A q \in Participants : \A s \in Views : Snapshot(q, s)' => Snapshot(q, s)
    BY <1>7 DEF Interrupted, Post, Snapshot
  <2>2. /\ UNCHANGED <<run, seen>>
        /\ \A q \in Participants : /\ Done(q)' => Done(q)
                                   /\ Collecting(q)' => Collecting(q)
    BY <1>7 DEF Interrupted, Move, Done, Collecting, TypeOK
  <2>. QED
    BY <2>1, <2>2, Steady
<1>8. CASE LatePost
  <2>1. \A q \in Participants : \A s \in Views : Snapshot(q, s)' => Snapshot(q, s)
    BY <1>8 DEF LatePost, Handle, Snapshot, TypeOK
  <2>2. UNCHANGED <<phase, run, seen>>
    BY <1>8 DEF LatePost
  <2>. QED
    BY <2>1, <2>2, Steady DEF Done, Collecting
<1>9. ASSUME NEW p \in Participants, RunAgain(p)
      PROVE  Rest
  <2>1. /\ phase' = [phase EXCEPT ![p] = "round1"] /\ ~Done(p)
        /\ run' = [run EXCEPT ![p] = run[p] + 1]
        /\ seen' = [seen EXCEPT ![p] = Part1(Participants, p, run[p] + 1)]
        /\ UNCHANGED <<r2, late>>
    BY <1>9 DEF RunAgain, Move, Done, TypeOK
  <2>2. ~Complete(seen'[p])
    <3>1. run[p] + 1 \in Runs
      BY <1>9, DkgAssumption DEF RunAgain, TypeOK, Runs
    <3>. QED
      BY <2>1, <3>1, FirstIsIncomplete DEF TypeOK
  <2>3. \A q \in Participants : \A s \in Views : Snapshot(q, s)' => Snapshot(q, s)
    BY <2>1, <2>2 DEF Snapshot, TypeOK
  <2>4. \A q \in Participants :
          Done(q)' => Done(q) /\ seen'[q] = seen[q] /\ run'[q] = run[q]
    BY <2>1 DEF Done, TypeOK
  <2>5. \A q \in Participants :
          \/ run'[q] = run[q] /\ (Collecting(q)' => Collecting(q))
          \/ run'[q] = run[q] + 1
    BY <2>1 DEF Collecting, TypeOK
  <2>. QED
    BY <2>3, <2>4, <2>5, Steady
<1>10. CASE RelayRestarts
  <2>1. UNCHANGED <<phase, run, seen, late>> /\ \A q \in Participants : r2'[q] = NoPost
    BY <1>10 DEF RelayRestarts
  <2>2. ~Complete(NoPost)
    BY FirstIsIncomplete, DkgAssumption DEF Participants, Runs
  <2>3. \A q \in Participants : \A s \in Views : Snapshot(q, s)' => Snapshot(q, s)
    BY <2>1, <2>2 DEF Snapshot
  <2>. QED
    BY <2>1, <2>3, Steady DEF Done, Collecting
<1>11. CASE UNCHANGED vars
  <2>1. \A q \in Participants : \A s \in Views : Snapshot(q, s)' => Snapshot(q, s)
    BY <1>11 DEF vars, Snapshot
  <2>. QED
    BY <1>11, <2>1, Steady DEF vars, Done, Collecting
<1>. QED
  BY <1>2, <1>3, <1>4, <1>5, <1>6, <1>7, <1>8, <1>9, <1>10, <1>11 DEF Next, Progress

(* The invariant holds before anything is posted: there is no snapshot yet. *)
LEMMA Initially == Init => IInv
<1> SUFFICES ASSUME Init
             PROVE  IInv
  OBVIOUS
<1>1. 1 \in Runs
  BY DkgAssumption DEF Runs
<1>2. TypeOK
  <2>1. 1 \in 1 .. MaxRuns /\ 0 \in 0 .. MaxFaults
    BY DkgAssumption
  <2>. QED
    BY <1>1, <2>1, ViewsTyped DEF Init, TypeOK, NoPost, NoPackage, Runs, Views
<1>3. \A p \in Participants : \A s \in Views : ~Snapshot(p, s)
  BY <1>1, FirstIsIncomplete DEF Init, Snapshot
<1>4. \A p \in Participants : ~Done(p) /\ phase[p] = "round1"
  BY DEF Init, Done
<1>5. Known
  BY DEF Init, Known, Part1, NoPost, NoPackage
<1>6. Fetched
  BY DEF Init, Fetched
<1>. QED
  BY <1>2, <1>3, <1>4, <1>5, <1>6 DEF IInv, OneEach, InOrder, Settled, MutualView

-----------------------------------------------------------------------------

(* MutualView for any number of participants, runs and faults: two participants that
   hold a share each used the package the other's present run made (dkg_net.rs,
   participate_for and part3). *)
THEOREM ShareHoldersKnowEachOther == Spec => []MutualView
<1>1. Init => IInv
  BY Initially
<1>2. TypeOK /\ TypeOK' /\ IInv /\ [Next]_vars => IInv'
  BY Inductive
<1>3. IInv => MutualView
  BY DEF IInv
<1>. QED
  BY <1>1, <1>2, <1>3, TypeCorrect, PTL DEF Spec

(* SameAsInMemory: when everyone has finished, everyone derived what run_in_memory_for
   derives from the same runs, and one group key, for which the networked ceremony has
   no check of its own (ceremony.rs:201). *)
THEOREM FinishedTogetherAgree == Spec => []SameAsInMemory
<1>1. TypeOK /\ Fetched /\ MutualView => SameAsInMemory
  <2> SUFFICES ASSUME TypeOK, MutualView, Fetched, \A p \in Participants : Done(p)
               PROVE  RunFor(Participants, run) = {seen}
    BY DEF SameAsInMemory
  <2>1. \A p \in Participants : seen[p] = run /\ Complete(seen[p])
    BY DEF MutualView, TypeOK, Fetched, Done
  <2>. DEFINE all == [me \in Participants |->
                        [id \in Participants |->
                           IF id = me THEN Part1(Participants, me, run[me])[id] ELSE run[id]]]
              r2s == [me \in Participants |->
                        [from \in Participants \ {me} |-> Sealed(from, all[from], me)]]
  <2>2. \A me \in Participants : all[me] = run
    BY DEF Part1, TypeOK
  <2>3. \A me \in Participants : Complete(all[me]) /\ Part3Fits(me, all[me], r2s[me])
    BY <2>1, <2>2 DEF Part3Fits, Opens, Sealed, TypeOK
  <2>4. RunInMemory(Participants, run) = [me \in Participants |-> all[me]]
    BY <2>3 DEF RunInMemory
  <2>5. seen = [me \in Participants |-> all[me]]
    BY <2>1, <2>2 DEF TypeOK
  <2>6. ~DisagreedOnGroupKey(seen)
    BY <2>1 DEF DisagreedOnGroupKey, TypeOK
  <2>. QED
    BY <2>4, <2>5, <2>6 DEF RunFor
<1>2. TypeOK /\ TypeOK' /\ IInv /\ [Next]_vars => IInv'
  BY Inductive
<1>3. IInv => SameAsInMemory
  BY <1>1 DEF IInv
<1>. QED
  BY <1>2, <1>3, Initially, TypeCorrect, PTL DEF Spec

(* What Ceremony::new insists on a majority for: any two quorums of a vault it creates
   share a participant.  (Treasury::provision does not insist.) *)
THEOREM QuorumsMeet ==
  ASSUME NEW participants \in Nat, NEW threshold \in Nat,
         NewCeremony(threshold, participants) = "Ok",
         NEW A \in SUBSET (1 .. participants), NEW B \in SUBSET (1 .. participants),
         Cardinality(A) >= threshold, Cardinality(B) >= threshold
  PROVE  A \cap B # {}
<1>1. 2 * threshold > participants
  BY DEF NewCeremony
<1>2. /\ IsFiniteSet(1 .. participants)
      /\ Cardinality(1 .. participants) = participants
  BY FS_Interval
<1>3. /\ IsFiniteSet(A) /\ IsFiniteSet(B)
      /\ Cardinality(A \cup B) <= participants
  BY <1>2, FS_Subset
<1>4. Cardinality(A \cup B) = Cardinality(A) + Cardinality(B) - Cardinality(A \cap B)
  BY <1>3, FS_Union
<1>5. Cardinality(A) \in Nat /\ Cardinality(B) \in Nat
  BY <1>3, FS_CardinalityType
<1>. QED
  BY <1>1, <1>3, <1>4, <1>5, FS_EmptySet
=============================================================================
