---------------------------------- MODULE Dkg ----------------------------------
(***************************************************************************)
(* The key generation over a relay (dkg_net.rs): N participants, each a    *)
(* process that posts its round-one package, polls until the relay has     *)
(* everyone's, posts the round-two packages it sealed, polls again and     *)
(* assembles its share.  The relay keeps one package an identifier and     *)
(* replaces it when that identifier posts again.                           *)
(*                                                                         *)
(* Any call may fail and any process may die, which ends that run; what it *)
(* had posted may still reach the relay later.  The operator may run the   *)
(* participant again, and the relay may lose its memory.                   *)
(***************************************************************************)
EXTENDS Ceremony

CONSTANTS
  N,          \* the participants are 1 .. N, as is what the relay expects
  MaxRuns,    \* bound: how often a participant is run
  MaxFaults   \* bound: failed calls, deaths and losses of the relay's memory

ASSUME DkgAssumption ==
  /\ N \in Nat \ {0, 1}
  /\ MaxRuns \in Nat \ {0}
  /\ MaxFaults \in Nat

VARIABLES
  phase,  \* where a participant's present run is
  run,    \* the number of a participant's present run
  seen,   \* the round-one packages the run holds (r1_all, seal_pubs)
  r1,     \* the relay: identifier -> round-one package
  r2,     \* the relay: identifier -> the packages its round-two post was made from
  late,   \* posts of runs that ended without a reply, still under way
  faults

vars == <<phase, run, seen, r1, r2, late, faults>>

Participants == 1 .. N
Runs == 0 .. MaxRuns
NoPost == [id \in Participants |-> NoPackage]

Init ==
  /\ phase = [p \in Participants |-> "round1"]
  /\ run = [p \in Participants |-> 1]
  /\ seen = [p \in Participants |-> Part1(Participants, p, 1)]
  /\ r1 = NoPost
  /\ r2 = [p \in Participants |-> NoPost]
  /\ late = {}
  /\ faults = 0

Move(p, to) == phase' = [phase EXCEPT ![p] = to]

(* A post carries what the run holds: its own package, later everyone's. *)
Post(p) == [round |-> phase[p], from |-> p, seen |-> seen[p]]

(* POST_R1 and POST_R2: the identifier's earlier post is replaced. *)
Handle(post) ==
  \/ /\ post.round = "round1"
     /\ r1' = [r1 EXCEPT ![post.from] = post.seen[post.from]]
     /\ UNCHANGED r2
  \/ /\ post.round = "round2"
     /\ r2' = [r2 EXCEPT ![post.from] = post.seen]
     /\ UNCHANGED r1

PostRound1(p) ==
  /\ phase[p] = "round1"
  /\ Handle(Post(p))
  /\ Move(p, "poll1")
  /\ UNCHANGED <<run, seen, late, faults>>

PostRound2(p) ==
  /\ phase[p] = "round2"
  /\ Handle(Post(p))
  /\ Move(p, "poll2")
  /\ UNCHANGED <<run, seen, late, faults>>

(* GET_R1 and GET_R2 answer WAIT until as many identifiers as expected have posted. *)
Round1Waits == Cardinality({p \in Participants : r1[p] # NoPackage}) < N
Round2Waits == Cardinality({p \in Participants : r2[p] # NoPost}) < N

\* Mutant of FetchRound1: its own package, too, is what the relay has.
FetchRound1OwnToo(p) ==
  /\ phase[p] = "poll1"
  /\ ~Round1Waits
  /\ seen' = [seen EXCEPT ![p] = r1]
  /\ Move(p, IF Complete(r1) THEN "round2" ELSE "failed")
  /\ UNCHANGED <<run, r1, r2, late, faults>>

\* Mutant of FetchRound1: its own package is not kept with the others'.
FetchRound1OthersOnly(p) ==
  /\ phase[p] = "poll1"
  /\ ~Round1Waits
  /\ seen' = [seen EXCEPT ![p] = [id \in Participants \ {p} |-> r1[id]]]
  /\ Move(p, IF Complete(seen'[p]) THEN "round2" ELSE "failed")
  /\ UNCHANGED <<run, r1, r2, late, faults>>

(* GET_R1 and part2: the others' packages as the relay has them, its own as it is. *)
FetchRound1(p) ==
  /\ phase[p] = "poll1"
  /\ ~Round1Waits
  /\ seen' = [seen EXCEPT ![p] = [id \in Participants |-> IF id = p THEN @[id] ELSE r1[id]]]
  /\ Move(p, IF Complete(seen'[p]) THEN "round2" ELSE "failed")
  /\ UNCHANGED <<run, r1, r2, late, faults>>

(* What GET_R2 answers: everything addressed to the caller, by sender. *)
SealedTo(p) == [from \in Participants \ {p} |-> Sealed(from, r2[from], p)]

FetchRound2(p) ==
  /\ phase[p] = "poll2"
  /\ ~Round2Waits
  /\ Move(p, IF Part3Fits(p, seen[p], SealedTo(p)) THEN "done" ELSE "failed")
  /\ UNCHANGED <<run, seen, r1, r2, late, faults>>

\* Mutant of PollTimesOut: the first round is polled without end.
PollTimesOutInRound2(p) ==
  /\ phase[p] = "poll2" /\ Round2Waits
  /\ Move(p, "gaveUp")
  /\ UNCHANGED <<run, seen, r1, r2, late, faults>>

(* 600 tries found the round incomplete. *)
PollTimesOut(p) ==
  /\ \/ phase[p] = "poll1" /\ Round1Waits
     \/ phase[p] = "poll2" /\ Round2Waits
  /\ Move(p, "gaveUp")
  /\ UNCHANGED <<run, seen, r1, r2, late, faults>>

Ended(p) == phase[p] \in {"done", "failed", "gaveUp"}

(* A call failed or the process died; a post it was making may be handled later. *)
Interrupted(p) ==
  /\ faults < MaxFaults
  /\ ~Ended(p)
  /\ Move(p, "failed")
  /\ \/ UNCHANGED late
     \/ /\ phase[p] \in {"round1", "round2"}
        /\ late' = late \cup {Post(p)}
  /\ faults' = faults + 1
  /\ UNCHANGED <<run, seen, r1, r2>>

LatePost ==
  \E post \in late :
    /\ Handle(post)
    /\ late' = late \ {post}
    /\ UNCHANGED <<phase, run, seen, faults>>

(* The participant is run again: part1 with a new polynomial and sealing key. *)
RunAgain(p) ==
  /\ phase[p] \in {"failed", "gaveUp"}
  /\ run[p] < MaxRuns
  /\ run' = [run EXCEPT ![p] = @ + 1]
  /\ seen' = [seen EXCEPT ![p] = Part1(Participants, p, run'[p])]
  /\ Move(p, "round1")
  /\ UNCHANGED <<r1, r2, late, faults>>

(* The relay keeps its state in memory only. *)
RelayRestarts ==
  /\ faults < MaxFaults
  /\ r1' = NoPost
  /\ r2' = [p \in Participants |-> NoPost]
  /\ faults' = faults + 1
  /\ UNCHANGED <<phase, run, seen, late>>

Progress(p) ==
  \/ PostRound1(p)
  \/ FetchRound1(p)
  \/ PostRound2(p)
  \/ FetchRound2(p)
  \/ PollTimesOut(p)

Next ==
  \/ \E p \in Participants : Progress(p) \/ Interrupted(p) \/ RunAgain(p)
  \/ LatePost
  \/ RelayRestarts

Spec == Init /\ [][Next]_vars

(* A participant's thread goes on until its run ends: calls have a read timeout and
   polls a number of tries.  Nothing makes an operator run it again. *)
FairSpec == Spec /\ \A p \in Participants : WF_vars(Progress(p))

-----------------------------------------------------------------------------

(* The type invariant. *)
TypeOK ==
  /\ phase \in [Participants ->
       {"round1", "poll1", "round2", "poll2", "done", "failed", "gaveUp"}]
  /\ run \in [Participants -> 1 .. MaxRuns]
  /\ seen \in [Participants -> [Participants -> Runs]]
  /\ r1 \in [Participants -> Runs]
  /\ r2 \in [Participants -> [Participants -> Runs]]
  /\ late \in SUBSET [round : {"round1", "round2"}, from : Participants,
                      seen : [Participants -> Runs]]
  /\ faults \in 0 .. MaxFaults

Done(p) == phase[p] = "done"

(* Two participants that hold a share each took the package the other's present run
   made: their shares are of polynomials both of them still have (part3 opens only
   what was sealed to this run by the run whose commitment it holds). *)
MutualView ==
  \A p, q \in Participants : Done(p) /\ Done(q) => seen[p][q] = run[q]

(* When everyone has finished, everyone derived what the in-memory ceremony of their
   present runs derives, and one group key, whatever was lost, repeated or delayed on
   the way: the comparison ceremony.rs:201 makes and the participants of a networked
   ceremony cannot. *)
SameAsInMemory ==
  (\A p \in Participants : Done(p)) =>
     RunFor(Participants, run) = {seen}

(* What the in-memory ceremony checks and the tests assert of the networked one:
   those that finish have one group key. *)
Agreement == \A p, q \in Participants : Done(p) /\ Done(q) => seen[p] = seen[q]

(* No participant waits for ever: every run ends, with a share or without. *)
RunEnds == \A p \in Participants : [](~Ended(p) => <>Ended(p))

(* If no call fails, nothing dies and nobody runs out of tries, everyone gets a share. *)
Completes ==
  [](faults = 0 /\ \A p \in Participants : phase[p] # "gaveUp")
     => <>(\A p \in Participants : Done(p))
================================================================================
