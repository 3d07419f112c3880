--------------------------- MODULE ParticipantProofs ---------------------------
(***************************************************************************)
(* What is proved of Participant for every number of holders, requests,    *)
(* actions and nonces.                                                     *)
(*                                                                         *)
(* The argument for NonceSignsOnce.  A nonce is at any time unsigned and   *)
(* in at most one open request, or out of every open request for good:     *)
(* requests draw disjoint, growing ranges of nonces (NoncesDrawn,          *)
(* RequestsDisjoint), and a share is only released by a step that takes    *)
(* its request out (SignedNotLive).  One round two makes shares under      *)
(* distinct nonces, so it cannot meet a share made before.                 *)
(***************************************************************************)
EXTENDS Participant, TLAPS

\* The nonce ranges of two requests do not meet.
Apart(q, r) == \/ q.first + Len(q.alphas) <= r.first
               \/ r.first + Len(r.alphas) <= q.first

InRange(n, r) == r.first <= n /\ n < r.first + Len(r.alphas)

NoncesDrawn ==
  /\ \A h \in Holders : \A r \in live[h] : r.first + Len(r.alphas) - 1 <= drawn[h]
  /\ \A o \in opened : o.first + Len(o.alphas) - 1 <= drawn[o.holder]
  /\ \A s \in released : s.nonce <= drawn[s.holder]

RequestsDisjoint ==
  /\ \A h \in Holders : \A q, r \in live[h] : q # r => q.id # r.id /\ Apart(q, r)
  /\ \A o, p \in opened : o.holder = p.holder /\ o # p => Apart(o, p)

\* An open request is the one the history recorded.
LiveWasOpened ==
  \A h \in Holders : \A r \in live[h] :
    [holder |-> h, sighash |-> r.sighash, alphas |-> r.alphas, first |-> r.first] \in opened

SignedNotLive ==
  \A s \in released : \A r \in live[s.holder] : ~ InRange(s.nonce, r)

DrawInv == NoncesDrawn /\ RequestsDisjoint /\ LiveWasOpened /\ SignedNotLive
IInv == DrawInv /\ NonceSignsOnce /\ ShareKeepsCommitment /\ AllSharesOrNone

-----------------------------------------------------------------------------
(***************************************************************************)
(* The number of actions of a request is a natural number.                 *)
(***************************************************************************)
LEMMA LenOfAlphas ==
  ASSUME NEW r \in Live
  PROVE  /\ Len(r.alphas) \in Nat
         /\ DOMAIN r.alphas = 1 .. Len(r.alphas)
         /\ r.first \in Nat
         /\ r.opened_at \in Nat
BY AlphaVectorsAssumption DEF Live

(***************************************************************************)
(* The sweep only takes requests out.                                      *)
(***************************************************************************)
LEMMA UnexpiredSubset ==
  ASSUME NEW h \in Holders
  PROVE  Unexpired(h) \subseteq live[h]
BY DEF Unexpired

(***************************************************************************)
(* What a signable request releases is a share of the right type.          *)
(***************************************************************************)
LEMMA SharesTyped ==
  ASSUME NEW h \in Holders, NEW r \in Live, NEW packages \in PackageLists,
         Signable(h, r, packages), NEW i \in 1 .. Len(r.alphas)
  PROVE  Share(h, r, packages, i) \in ShareType
<1>1. /\ Len(r.alphas) \in Nat
      /\ DOMAIN r.alphas = 1 .. Len(r.alphas)
      /\ r.first \in Nat
      /\ r.alphas \in AlphaVectors
  BY LenOfAlphas DEF Live
<1>2. Nonce(r, i) \in Nat
  BY <1>1 DEF Nonce
<1>3. r.alphas[i] \in UNION {{a[j] : j \in DOMAIN a} : a \in AlphaVectors}
  BY <1>1
<1>4. packages[i] \in Package
  BY <1>1, PackageListsAssumption DEF Signable, Listed
<1>. QED
  BY <1>2, <1>3, <1>4 DEF Share, ShareType

(***************************************************************************)
(* Every step keeps the state's type: the shape a participant's struct     *)
(* declares.                                                               *)
(***************************************************************************)
LEMMA TypeKept ==
  ASSUME TypeOK, [Next]_vars
  PROVE  TypeOK'
<1>. USE DEF TypeOK
<1>1. ASSUME NEW h \in Holders, NEW id \in RequestIds, NEW sighash \in Sighashes,
             NEW alphas \in AlphaVectors, Round1(h, id, sighash, alphas)
      PROVE  TypeOK'
  <2>1. Len(alphas) \in Nat
    BY AlphaVectorsAssumption
  <2>2. [id |-> id, sighash |-> sighash, alphas |-> alphas,
         first |-> drawn[h] + 1, opened_at |-> now] \in Live
    BY DEF Live
  <2>. QED
    BY <1>1, <2>1, <2>2, UnexpiredSubset DEF Round1
<1>2. ASSUME NEW h \in Holders, NEW id \in RequestIds, Round1AlreadyOpen(h, id)
      PROVE  TypeOK'
  BY <1>2, UnexpiredSubset DEF Round1AlreadyOpen
<1>3. ASSUME NEW h \in Holders, NEW id \in RequestIds, NEW packages \in PackageLists,
             Round2(h, id, packages)
      PROVE  TypeOK'
  <2>1. PICK r \in live[h] :
          /\ Signable(h, r, packages)
          /\ live' = [live EXCEPT ![h] = @ \ {r}]
          /\ released' = released \cup {Share(h, r, packages, i) : i \in 1 .. Len(r.alphas)}
          /\ UNCHANGED <<drawn, opened, now>>
    BY <1>3 DEF Round2
  <2>2. r \in Live
    OBVIOUS
  <2>3. released' \subseteq ShareType
    BY <2>1, <2>2, SharesTyped
  <2>. QED
    BY <2>1, <2>3
<1>4. ASSUME NEW h \in Holders, NEW id \in RequestIds, NEW packages \in PackageLists,
             Round2Refused(h, id, packages)
      PROVE  TypeOK'
  BY <1>4 DEF Round2Refused
<1>5. ASSUME NEW h \in Holders, DropExpired(h)
      PROVE  TypeOK'
  BY <1>5, UnexpiredSubset DEF DropExpired
<1>6. ASSUME NEW h \in Holders, Restart(h)
      PROVE  TypeOK'
  BY <1>6 DEF Restart
<1>7. ASSUME NEW t \in 0 .. MaxTime, SetClock(t)
      PROVE  TypeOK'
  BY <1>7, BoundsAssumption DEF SetClock
<1>8. CASE UNCHANGED vars
  BY <1>8 DEF vars
<1>. QED
  BY <1>1, <1>2, <1>3, <1>4, <1>5, <1>6, <1>7, <1>8 DEF Next

(***************************************************************************)
(* Type correctness: the state of every participant keeps the shape its    *)
(* struct declares.                                                        *)
(***************************************************************************)
THEOREM TypeCorrect == Spec => []TypeOK
<1>1. Init => TypeOK
  BY DEF Init, TypeOK
<1>2. TypeOK /\ [Next]_vars => TypeOK'
  BY TypeKept
<1>. QED
  BY <1>1, <1>2, PTL DEF Spec

-----------------------------------------------------------------------------
(***************************************************************************)
(* The two ways to speak of a request's nonces agree.                      *)
(***************************************************************************)
LEMMA NoncesAreRange ==
  ASSUME NEW r, Len(r.alphas) \in Nat, r.first \in Nat
  PROVE  \A n \in Nat : n \in NoncesOf(r) <=> InRange(n, r)
<1> SUFFICES ASSUME NEW n \in Nat
             PROVE  n \in NoncesOf(r) <=> InRange(n, r)
  OBVIOUS
<1>1. ASSUME n \in NoncesOf(r)
      PROVE  InRange(n, r)
  BY <1>1 DEF NoncesOf, Nonce, InRange
<1>2. ASSUME InRange(n, r)
      PROVE  n \in NoncesOf(r)
  <2>1. n - r.first + 1 \in 1 .. Len(r.alphas)
    BY <1>2 DEF InRange
  <2>2. Nonce(r, n - r.first + 1) = n
    BY DEF Nonce
  <2>. QED
    BY <2>1, <2>2 DEF NoncesOf
<1>. QED
  BY <1>1, <1>2

(***************************************************************************)
(* The actions that only take requests out, or do not touch them.          *)
(***************************************************************************)
LEMMA ForgettingKeepsIInv ==
  ASSUME TypeOK, IInv,
         live' \in [Holders -> SUBSET Live],
         \A h \in Holders : live'[h] \subseteq live[h],
         UNCHANGED <<drawn, opened, released>>
  PROVE  IInv'
<1>. USE DEF TypeOK, IInv, DrawInv
<1>1. NoncesDrawn'
  BY DEF NoncesDrawn
<1>2. RequestsDisjoint'
  BY DEF RequestsDisjoint, Apart
<1>3. LiveWasOpened'
  BY DEF LiveWasOpened
<1>4. SignedNotLive'
  BY DEF SignedNotLive, InRange, ShareType
<1>5. /\ NonceSignsOnce'
      /\ ShareKeepsCommitment'
      /\ AllSharesOrNone'
  BY DEF NonceSignsOnce, ShareKeepsCommitment, AllSharesOrNone, SignedNonces, SharesOf
<1>. QED
  BY <1>1, <1>2, <1>3, <1>4, <1>5

(***************************************************************************)
(* Round one draws above everything drawn before.                          *)
(***************************************************************************)
LEMMA Round1KeepsIInv ==
  ASSUME TypeOK, IInv,
         NEW h \in Holders, NEW id \in RequestIds, NEW sighash \in Sighashes,
         NEW alphas \in AlphaVectors, Round1(h, id, sighash, alphas)
  PROVE  IInv'
<1>. DEFINE request == [id |-> id, sighash |-> sighash, alphas |-> alphas,
                        first |-> drawn[h] + 1, opened_at |-> now]
            record == [holder |-> h, sighash |-> sighash, alphas |-> alphas,
                       first |-> drawn[h] + 1]
<1>. USE DEF TypeOK, IInv, DrawInv
<1>1. /\ Len(alphas) \in Nat
      /\ drawn[h] \in Nat
  BY AlphaVectorsAssumption
<1>2. /\ \A r \in Unexpired(h) : r.id # id
      /\ live' = [live EXCEPT ![h] = Unexpired(h) \cup {request}]
      /\ drawn' = [drawn EXCEPT ![h] = @ + Len(alphas)]
      /\ opened' = opened \cup {record}
      /\ released' = released
  BY DEF Round1
<1>3. /\ \A g \in Holders : \A r \in live'[g] : r \in live[g] \/ (g = h /\ r = request)
      /\ \A g \in Holders : \A r \in live'[g] : r # request => r \in live[g]
      /\ \A g \in Holders : drawn[g] <= drawn'[g]
      /\ \A g \in Holders : drawn[g] \in Nat /\ drawn'[g] \in Nat
      /\ drawn'[h] = drawn[h] + Len(alphas)
  BY <1>1, <1>2, UnexpiredSubset
<1>4. /\ \A g \in Holders : \A r \in live[g] :
           Len(r.alphas) \in Nat /\ r.first \in Nat
      /\ \A o \in opened :
           /\ Len(o.alphas) \in Nat
           /\ o.first \in Nat
           /\ o.holder \in Holders
      /\ \A s \in released : s.nonce \in Nat /\ s.holder \in Holders
  BY LenOfAlphas, AlphaVectorsAssumption DEF ShareType
<1>5. NoncesDrawn'
  BY <1>1, <1>2, <1>3, <1>4 DEF NoncesDrawn
<1>6. RequestsDisjoint'
  <2>1. \A g \in Holders : \A q, r \in live'[g] : q # r => q.id # r.id /\ Apart(q, r)
    <3> SUFFICES ASSUME NEW g \in Holders, NEW q \in live'[g], NEW r \in live'[g], q # r
                 PROVE  q.id # r.id /\ Apart(q, r)
      OBVIOUS
    <3>1. CASE g # h \/ (q # request /\ r # request)
      BY <3>1, <1>2, <1>3 DEF RequestsDisjoint
    <3>2. ASSUME g = h, NEW p \in live'[g], p # request
          PROVE  p.id # id /\ p.first + Len(p.alphas) <= drawn[h] + 1
      <4>1. p \in Unexpired(h)
        BY <3>2, <1>2
      <4>2. p \in live[h]
        BY <4>1, UnexpiredSubset
      <4>. QED
        BY <4>1, <4>2, <1>1, <1>2, <1>4 DEF NoncesDrawn
    <3>3. CASE g = h /\ q # request /\ r = request
      <4>1. q.id # id /\ q.first + Len(q.alphas) <= drawn[h] + 1
        BY <3>2, <3>3
      <4>. QED
        BY <4>1, <3>3 DEF Apart
    <3>4. CASE g = h /\ q = request /\ r # request
      <4>1. r.id # id /\ r.first + Len(r.alphas) <= drawn[h] + 1
        BY <3>2, <3>4
      <4>. QED
        BY <4>1, <3>4 DEF Apart
    <3>. QED
      BY <3>1, <3>3, <3>4
  <2>2. \A o, p \in opened' : o.holder = p.holder /\ o # p => Apart(o, p)
    BY <1>1, <1>2, <1>4 DEF RequestsDisjoint, Apart, NoncesDrawn
  <2>. QED
    BY <2>1, <2>2 DEF RequestsDisjoint
<1>7. LiveWasOpened'
  <2> SUFFICES ASSUME NEW g \in Holders, NEW r \in live'[g]
               PROVE  [holder |-> g, sighash |-> r.sighash, alphas |-> r.alphas,
                       first |-> r.first] \in opened'
    BY DEF LiveWasOpened
  <2>1. CASE r \in live[g]
    BY <2>1, <1>2 DEF LiveWasOpened
  <2>2. CASE g = h /\ r = request
    BY <2>2, <1>2
  <2>. QED
    BY <2>1, <2>2, <1>3
<1>8. SignedNotLive'
  BY <1>1, <1>2, <1>3, <1>4 DEF SignedNotLive, InRange, NoncesDrawn
<1>9. NonceSignsOnce'
  BY <1>2 DEF NonceSignsOnce
<1>10. ShareKeepsCommitment'
  BY <1>1, <1>2, <1>4 DEF ShareKeepsCommitment, Nonce, NoncesDrawn
<1>11. AllSharesOrNone'
  <2>1. \A g \in Holders : SignedNonces(g)' = SignedNonces(g)
    BY <1>2 DEF SignedNonces, SharesOf
  <2>2. NoncesOf(record) \cap SignedNonces(h) = {}
    BY <1>1, <1>4 DEF NoncesOf, Nonce, SignedNonces, SharesOf, NoncesDrawn
  <2>. QED
    BY <2>1, <2>2, <1>2, <1>4 DEF AllSharesOrNone
<1>. QED
  BY <1>5, <1>6, <1>7, <1>8, <1>9, <1>10, <1>11

(***************************************************************************)
(* Round two releases shares under the nonces of the request it takes out, *)
(* and under no others.                                                    *)
(***************************************************************************)
LEMMA Round2KeepsIInv ==
  ASSUME TypeOK, IInv,
         NEW h \in Holders, NEW id \in RequestIds, NEW packages \in PackageLists,
         Round2(h, id, packages)
  PROVE  IInv'
<1>. USE DEF TypeOK, IInv, DrawInv
<1>1. PICK r \in live[h] :
        /\ Signable(h, r, packages)
        /\ live' = [live EXCEPT ![h] = @ \ {r}]
        /\ released' = released \cup {Share(h, r, packages, i) : i \in 1 .. Len(r.alphas)}
        /\ UNCHANGED <<drawn, opened, now>>
  BY DEF Round2
<1>. DEFINE record == [holder |-> h, sighash |-> r.sighash, alphas |-> r.alphas,
                       first |-> r.first]
<1>2. /\ \A g \in Holders : \A q \in live[g] :
           Len(q.alphas) \in Nat /\ q.first \in Nat
      /\ \A o \in opened :
           /\ Len(o.alphas) \in Nat
           /\ o.first \in Nat
           /\ o.holder \in Holders
      /\ \A s \in released : s.nonce \in Nat /\ s.holder \in Holders
      /\ \A g \in Holders : drawn[g] \in Nat
  BY LenOfAlphas, AlphaVectorsAssumption DEF ShareType
<1>3. /\ \A g \in Holders : live'[g] \subseteq live[g]
      /\ r \notin live'[h]
      /\ record \in opened
  BY <1>1 DEF LiveWasOpened
<1>4. \A s \in released' \ released :
        \E i \in 1 .. Len(r.alphas) :
          /\ s = Share(h, r, packages, i)
          /\ s.holder = h
          /\ s.nonce = r.first + i - 1
          /\ s.nonce \in Nat
          /\ InRange(s.nonce, r)
          /\ s.alpha = r.alphas[i]
          /\ s.package.message = r.sighash
  <2>1. \A i \in 1 .. Len(r.alphas) : packages[i].message = r.sighash
    BY <1>1 DEF Signable
  <2>2. Len(r.alphas) \in Nat /\ r.first \in Nat
    BY <1>1, <1>2
  <2>3. \A i \in 1 .. Len(r.alphas) :
          /\ Share(h, r, packages, i).holder = h
          /\ Share(h, r, packages, i).nonce = r.first + i - 1
          /\ Share(h, r, packages, i).alpha = r.alphas[i]
          /\ Share(h, r, packages, i).package = packages[i]
    BY Zenon DEF Share, Nonce
  <2>4. \A i \in 1 .. Len(r.alphas) :
          r.first + i - 1 \in Nat /\ InRange(r.first + i - 1, r)
    BY <2>2 DEF InRange
  <2>5. \A s \in released' \ released :
          \E i \in 1 .. Len(r.alphas) : s = Share(h, r, packages, i)
    BY <1>1, Zenon
  <2> SUFFICES ASSUME NEW s \in released' \ released
               PROVE  \E i \in 1 .. Len(r.alphas) :
                        /\ s = Share(h, r, packages, i)
                        /\ s.holder = h
                        /\ s.nonce = r.first + i - 1
                        /\ s.nonce \in Nat
                        /\ InRange(s.nonce, r)
                        /\ s.alpha = r.alphas[i]
                        /\ s.package.message = r.sighash
    BY Zenon
  <2>6. PICK i \in 1 .. Len(r.alphas) : s = Share(h, r, packages, i)
    BY <2>5, Zenon
  <2>7. /\ s.holder = h
        /\ s.nonce = r.first + i - 1
        /\ s.alpha = r.alphas[i]
        /\ s.package = packages[i]
    BY <2>3, <2>6, Zenon
  <2>. QED
    BY <2>1, <2>4, <2>6, <2>7, Zenon
<1>5. NoncesDrawn'
  <2>1. \A s \in released' : s.nonce <= drawn[s.holder]
    <3> SUFFICES ASSUME NEW s \in released'
                 PROVE  s.nonce <= drawn[s.holder]
      OBVIOUS
    <3>1. CASE s \in released
      BY <3>1 DEF NoncesDrawn
    <3>2. CASE s \notin released
      <4>1. s.holder = h /\ s.nonce \in Nat /\ InRange(s.nonce, r)
        BY <3>2, <1>4
      <4>2. r.first + Len(r.alphas) - 1 <= drawn[h]
        BY DEF NoncesDrawn
      <4>. QED
        BY <4>1, <4>2, <1>2 DEF InRange
    <3>. QED
      BY <3>1, <3>2
  <2>. QED
    BY <2>1, <1>1, <1>3 DEF NoncesDrawn
<1>6. RequestsDisjoint'
  BY <1>1, <1>3 DEF RequestsDisjoint, Apart
<1>7. LiveWasOpened'
  BY <1>1, <1>3 DEF LiveWasOpened
<1>8. SignedNotLive'
  <2> SUFFICES ASSUME NEW s \in released', NEW q \in live'[s.holder]
               PROVE  ~ InRange(s.nonce, q)
    BY DEF SignedNotLive, InRange
  <2>1. CASE s \in released
    BY <2>1, <1>2, <1>3 DEF SignedNotLive
  <2>2. CASE s \notin released
    <3>1. s.holder = h /\ s.nonce \in Nat /\ InRange(s.nonce, r)
      BY <2>2, <1>4
    <3>2. q \in live[h] /\ q # r
      BY <3>1, <1>3
    <3>3. Apart(q, r)
      BY <3>2 DEF RequestsDisjoint
    <3>. QED
      BY <3>1, <3>2, <3>3, <1>2 DEF Apart, InRange
  <2>. QED
    BY <2>1, <2>2
<1>9. NonceSignsOnce'
  <2>1. \A s \in released, t \in released' \ released :
          s.holder = t.holder => s.nonce # t.nonce
    BY <1>4 DEF SignedNotLive
  <2>2. \A s, t \in released' \ released : s.nonce = t.nonce => s = t
    <3> SUFFICES ASSUME NEW s \in released' \ released, NEW t \in released' \ released,
                        s.nonce = t.nonce
                 PROVE  s = t
      OBVIOUS
    <3>1. PICK i \in 1 .. Len(r.alphas) :
            s = Share(h, r, packages, i) /\ s.nonce = r.first + i - 1
      BY <1>4
    <3>2. PICK j \in 1 .. Len(r.alphas) :
            t = Share(h, r, packages, j) /\ t.nonce = r.first + j - 1
      BY <1>4
    <3>3. i = j
      BY <3>1, <3>2, <1>2
    <3>. QED
      BY <3>1, <3>2, <3>3
  <2>. QED
    BY <2>1, <2>2 DEF NonceSignsOnce
<1>10. ShareKeepsCommitment'
  <2> SUFFICES ASSUME NEW s \in released', NEW o \in opened, o.holder = s.holder,
                      NEW i \in 1 .. Len(o.alphas), Nonce(o, i) = s.nonce
               PROVE  s.package.message = o.sighash /\ s.alpha = o.alphas[i]
    BY <1>1 DEF ShareKeepsCommitment, Nonce
  <2>1. CASE s \in released
    BY <2>1 DEF ShareKeepsCommitment
  <2>2. CASE s \notin released
    <3>1. PICK j \in 1 .. Len(r.alphas) :
            /\ s.holder = h
            /\ s.nonce = r.first + j - 1
            /\ s.alpha = r.alphas[j]
            /\ s.package.message = r.sighash
      BY <2>2, <1>4
    <3>2. o = record
      <4>1. record.holder = h /\ record.first = r.first /\ record.alphas = r.alphas
        OBVIOUS
      <4>2. o # record => Apart(o, record)
        BY <3>1, <4>1, <1>3 DEF RequestsDisjoint
      <4>3. ~ Apart(o, record)
        BY <3>1, <4>1, <1>2 DEF Apart, Nonce
      <4>. QED
        BY <4>2, <4>3
    <3>3. i = j
      BY <3>1, <3>2, <1>2 DEF Nonce
    <3>. QED
      BY <3>1, <3>2, <3>3
  <2>. QED
    BY <2>1, <2>2
<1>11. AllSharesOrNone'
  <2>1. \A g \in Holders : g # h => SignedNonces(g)' = SignedNonces(g)
    BY <1>1, <1>4 DEF SignedNonces, SharesOf
  <2>2. SignedNonces(h)' = SignedNonces(h) \cup NoncesOf(r)
    <3>1. SharesOf(h)' = SharesOf(h) \cup {Share(h, r, packages, i) : i \in 1 .. Len(r.alphas)}
      BY <1>1 DEF SharesOf, Share
    <3>2. {s.nonce : s \in {Share(h, r, packages, i) : i \in 1 .. Len(r.alphas)}} = NoncesOf(r)
      <4>1. \A i \in 1 .. Len(r.alphas) : Share(h, r, packages, i).nonce = Nonce(r, i)
        BY Zenon DEF Share
      <4>. QED
        BY <4>1, Zenon DEF NoncesOf
    <3>. QED
      BY <3>1, <3>2 DEF SignedNonces
  <2>3. \A o \in opened : o.holder = h /\ o # record => NoncesOf(o) \cap NoncesOf(r) = {}
    <3> SUFFICES ASSUME NEW o \in opened, o.holder = h, o # record,
                        NEW n \in NoncesOf(o), n \in NoncesOf(r)
                 PROVE  FALSE
      OBVIOUS
    <3>1. Apart(o, record)
      BY <1>3 DEF RequestsDisjoint
    <3>2. n \in Nat /\ InRange(n, o) /\ InRange(n, record)
      BY <1>2 DEF NoncesOf, Nonce, InRange
    <3>. QED
      BY <3>1, <3>2, <1>2 DEF Apart, InRange
  <2>4. NoncesOf(record) = NoncesOf(r)
    BY DEF NoncesOf, Nonce
  <2> SUFFICES ASSUME NEW o \in opened
               PROVE  \/ NoncesOf(o) \subseteq SignedNonces(o.holder)'
                      \/ NoncesOf(o) \cap SignedNonces(o.holder)' = {}
    BY <1>1 DEF AllSharesOrNone
  <2>5. CASE o.holder # h
    BY <2>1, <2>5, <1>2 DEF AllSharesOrNone
  <2>6. CASE o = record
    BY <2>2, <2>4, <2>6
  <2>7. CASE o.holder = h /\ o # record
    BY <2>2, <2>3, <2>7 DEF AllSharesOrNone
  <2>. QED
    BY <2>5, <2>6, <2>7
<1>. QED
  BY <1>5, <1>6, <1>7, <1>8, <1>9, <1>10, <1>11

(***************************************************************************)
(* The inductive invariant.                                                *)
(***************************************************************************)
THEOREM IInvHolds == Spec => []IInv
<1>1. Init => IInv
  BY DEF Init, IInv, DrawInv, NoncesDrawn, RequestsDisjoint, LiveWasOpened, SignedNotLive,
         NonceSignsOnce, ShareKeepsCommitment, AllSharesOrNone
<1>2. TypeOK /\ TypeOK' /\ IInv /\ [Next]_vars => IInv'
  <2> SUFFICES ASSUME TypeOK, TypeOK', IInv, [Next]_vars
               PROVE  IInv'
    OBVIOUS
  <2>1. ASSUME NEW h \in Holders, NEW id \in RequestIds, NEW sighash \in Sighashes,
               NEW alphas \in AlphaVectors, Round1(h, id, sighash, alphas)
        PROVE  IInv'
    BY <2>1, Round1KeepsIInv
  <2>2. ASSUME NEW h \in Holders, NEW id \in RequestIds, NEW packages \in PackageLists,
               Round2(h, id, packages)
        PROVE  IInv'
    BY <2>2, Round2KeepsIInv
  <2>3. ASSUME NEW h \in Holders,
               \/ \E id \in RequestIds : Round1AlreadyOpen(h, id)
               \/ \E id \in RequestIds, packages \in PackageLists : Round2Refused(h, id, packages)
               \/ DropExpired(h)
               \/ Restart(h)
        PROVE  IInv'
    <3>1. /\ \A g \in Holders : live'[g] \subseteq live[g]
          /\ UNCHANGED <<drawn, opened, released>>
      BY <2>3, UnexpiredSubset DEF TypeOK, Round1AlreadyOpen, Round2Refused, DropExpired, Restart
    <3>. QED
      BY <3>1, ForgettingKeepsIInv DEF TypeOK
  <2>4. CASE UNCHANGED <<live, drawn, opened, released>>
    BY <2>4, ForgettingKeepsIInv DEF TypeOK
  <2>. QED
    BY <2>1, <2>2, <2>3, <2>4 DEF Next, SetClock, vars
<1>. QED
  BY <1>1, <1>2, TypeCorrect, PTL DEF Spec

(***************************************************************************)
(* No participant ever signs twice under one nonce, whatever coordinators, *)
(* clocks and restarts do (custodian.rs, The one discipline).              *)
(***************************************************************************)
THEOREM NonceSignsOnceHolds == Spec => []NonceSignsOnce
BY IInvHolds, PTL DEF IInv

(***************************************************************************)
(* No share is over another message or randomizer than its nonce was       *)
(* committed for (the WrongMessage check, and Live.alphas).                *)
(***************************************************************************)
THEOREM ShareKeepsCommitmentHolds == Spec => []ShareKeepsCommitment
BY IInvHolds, PTL DEF IInv

(***************************************************************************)
(* round2 answers with every share of a request or with none.              *)
(***************************************************************************)
THEOREM AllSharesOrNoneHolds == Spec => []AllSharesOrNone
BY IInvHolds, PTL DEF IInv

(***************************************************************************)
(* A nonce lost unsigned is never open or signed with again: round one     *)
(* draws new nonces only, and the other calls open nothing.                *)
(***************************************************************************)
THEOREM LostNonceStaysLostHolds == Spec => LostNonceStaysLost
<1>. DEFINE StaysLost ==
       \A h \in Holders : \A n \in 1 .. drawn[h] :
         n \notin LiveNonces(h) \cup SignedNonces(h)
           => n \notin (LiveNonces(h) \cup SignedNonces(h))'
<1>1. TypeOK /\ IInv /\ [Next]_vars => StaysLost
  <2> SUFFICES ASSUME TypeOK, IInv, [Next]_vars,
                      NEW h \in Holders, NEW n \in 1 .. drawn[h],
                      n \notin LiveNonces(h), n \notin SignedNonces(h)
               PROVE  n \notin LiveNonces(h)' /\ n \notin SignedNonces(h)'
    OBVIOUS
  <2>. USE DEF TypeOK
  <2>1. ASSUME NEW g \in Holders, NEW id \in RequestIds, NEW sighash \in Sighashes,
               NEW alphas \in AlphaVectors, Round1(g, id, sighash, alphas)
        PROVE  n \notin LiveNonces(h)' /\ n \notin SignedNonces(h)'
    <3>1. SignedNonces(h)' = SignedNonces(h)
      BY <2>1 DEF Round1, SignedNonces, SharesOf
    <3>2. \A q \in live'[h] : q \in live[h] \/ q.first = drawn[h] + 1
      BY <2>1, UnexpiredSubset DEF Round1
    <3>3. \A q \in live'[h] : n \notin NoncesOf(q)
      BY <3>2 DEF LiveNonces, NoncesOf, Nonce
    <3>. QED
      BY <3>1, <3>3 DEF LiveNonces
  <2>2. ASSUME NEW g \in Holders, NEW id \in RequestIds, NEW packages \in PackageLists,
               Round2(g, id, packages)
        PROVE  n \notin LiveNonces(h)' /\ n \notin SignedNonces(h)'
    <3>1. PICK r \in live[g] :
            /\ live' = [live EXCEPT ![g] = @ \ {r}]
            /\ released' = released \cup {Share(g, r, packages, i) : i \in 1 .. Len(r.alphas)}
      BY <2>2 DEF Round2
    <3>2. live'[h] \subseteq live[h]
      BY <3>1
    <3>3. \A s \in released' \ released : s.holder = g /\ s.nonce \in NoncesOf(r)
      BY <3>1 DEF Share, NoncesOf
    <3>4. \A s \in released' : s.holder = h => s.nonce # n
      BY <3>3 DEF LiveNonces, SignedNonces, SharesOf
    <3>. QED
      BY <3>2, <3>4 DEF LiveNonces, SignedNonces, SharesOf
  <2>3. ASSUME \A g \in Holders : live'[g] \subseteq live[g], released' = released
        PROVE  n \notin LiveNonces(h)' /\ n \notin SignedNonces(h)'
    BY <2>3 DEF LiveNonces, SignedNonces, SharesOf
  <2>4. CASE \E g \in Holders :
               \/ \E id \in RequestIds : Round1AlreadyOpen(g, id)
               \/ \E id \in RequestIds, packages \in PackageLists : Round2Refused(g, id, packages)
               \/ DropExpired(g)
               \/ Restart(g)
    BY <2>4, <2>3, UnexpiredSubset DEF Round1AlreadyOpen, Round2Refused, DropExpired, Restart
  <2>5. CASE UNCHANGED <<live, released>>
    BY <2>5, <2>3
  <2>. QED
    BY <2>1, <2>2, <2>4, <2>5 DEF Next, SetClock, vars
<1>. QED
  BY <1>1, TypeCorrect, IInvHolds, PTL DEF Spec, LostNonceStaysLost

(***************************************************************************)
(* No call about one id, and no sweep, takes another coordinator's request *)
(* away before its deadline.                                               *)
(***************************************************************************)
THEOREM RequestsKeptHolds == Spec => RequestsKeptUntilDeadline
<1>. DEFINE Kept ==
       \A h \in Holders : \A r \in live[h] \ live'[h] :
         \/ now - r.opened_at >= REQUEST_TTL_SECS
         \/ live'[h] = {}
         \/ live'[h] = live[h] \ {r}
<1>1. TypeOK /\ [Next]_vars => Kept
  <2> SUFFICES ASSUME TypeOK, [Next]_vars,
                      NEW h \in Holders, NEW r \in live[h] \ live'[h]
               PROVE  \/ now - r.opened_at >= REQUEST_TTL_SECS
                      \/ live'[h] = {}
                      \/ live'[h] = live[h] \ {r}
    OBVIOUS
  <2>. USE DEF TypeOK
  <2>1. ASSUME Unexpired(h) \subseteq live'[h]
        PROVE  now - r.opened_at >= REQUEST_TTL_SECS
    <3>1. r.opened_at \in Nat /\ now \in Nat
      BY LenOfAlphas
    <3>2. Age(r, now) >= REQUEST_TTL_SECS
      BY <2>1 DEF Unexpired, Expired
    <3>. QED
      BY <3>1, <3>2, TtlAssumption DEF Age
  <2>2. CASE \E g \in Holders :
               \/ \E id \in RequestIds, sighash \in Sighashes, alphas \in AlphaVectors :
                    Round1(g, id, sighash, alphas)
               \/ \E id \in RequestIds : Round1AlreadyOpen(g, id)
               \/ DropExpired(g)
    BY <2>1, <2>2, UnexpiredSubset DEF Round1, Round1AlreadyOpen, DropExpired
  <2>3. CASE \E g \in Holders, id \in RequestIds, packages \in PackageLists :
               Round2(g, id, packages) \/ Round2Refused(g, id, packages)
    BY <2>3 DEF Round2, Round2Refused
  <2>4. CASE \E g \in Holders : Restart(g)
    BY <2>4 DEF Restart
  <2>5. CASE live' = live
    BY <2>5
  <2>. QED
    BY <2>2, <2>3, <2>4, <2>5 DEF Next, SetClock, vars
<1>. QED
  BY <1>1, TypeCorrect, PTL DEF Spec, RequestsKeptUntilDeadline
=============================================================================
