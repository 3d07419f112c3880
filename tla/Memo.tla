--------------------------------- MODULE Memo ---------------------------------
(***************************************************************************)
(* The instructions a memo field may carry (memo.rs).  A memo is what its  *)
(* parsers look at:                                                        *)
(*   tag      the first bytes: "ZEC" an account, "ZEC1:" an account in     *)
(*            hex, "ZEA" an anchor, "ZEP" a publication, "ZEF" a forced    *)
(*            intent, "ZEB" an application payment, "" anything else       *)
(*   version  whether the version byte is the one this build writes        *)
(*   whole    whether the memo is as long as its instruction               *)
(*   clean    whether only zeros follow the instruction                    *)
(*   body     what the instruction holds                                   *)
(* The text form has its version among its tag and ends at the first zero, *)
(* so it is always whole.  A parser's result is a set, empty if it refuses.*)
(***************************************************************************)

CONSTANTS
  Accounts,  \* the accounts
  Nobody     \* the all-zero account, which is nobody's

ASSUME AccountsAssumption == Nobody \notin Accounts

AccountIds == Accounts \cup {Nobody}

(* What a body may be: NoAccount stands for text that is not 64 hex digits. *)
NoAccount == "no account"
Payments == [purpose : {0, 1}, reference : {0, 1}, recipient : AccountIds]

(* A submission frame: whether its length is zero, more than a memo holds or more than
   this memo holds, and whose key it carries, if it has a key and one of a scheme the
   account follows from. *)
Frames == [length : {"zero", "fits", "exceeds"}, signer : {NoAccount} \cup Accounts]

Bodies(tag) ==
  CASE tag = "ZEC" -> AccountIds
    [] tag = "ZEC1:" -> AccountIds \cup {NoAccount}
    [] tag = "ZEF" -> Frames
    [] tag = "ZEB" -> Payments
    [] tag \in {"ZEA", "ZEP", ""} -> {"bytes"}

Tags == {"ZEC", "ZEC1:", "ZEA", "ZEP", "ZEF", "ZEB", ""}

MemosOf(tag) ==
  [tag : {tag}, version : BOOLEAN, whole : BOOLEAN, clean : BOOLEAN, body : Bodies(tag)]

(* The zero-padded memo of a field, as the encoders build it. *)
Padded(tag, body) ==
  [tag |-> tag, version |-> TRUE, whole |-> TRUE, clean |-> TRUE, body |-> body]

Strict(m) == m.version /\ m.whole /\ m.clean

(* decode, with decode_text for the text form. *)
DecodedAccount(m) ==
  IF \/ m.tag = "ZEC" /\ Strict(m)
     \/ m.tag = "ZEC1:" /\ m.version /\ m.clean
    THEN {m.body} \ {NoAccount}
    ELSE {}

Encode(account) == Padded("ZEC", account)
EncodeText(account) == Padded("ZEC1:", account)
IsTopup(m) == DecodedAccount(m) = {Nobody}

HasAppPaymentTag(m) == m.tag = "ZEB"

(* A payment must name a sale and a recipient. *)
NamesObligation(payment) == payment.reference # 0 /\ payment.recipient # Nobody

DecodedAppPayment(m) ==
  {payment \in {m.body} :
     HasAppPaymentTag(m) /\ Strict(m) /\ payment.purpose # 0 /\ NamesObligation(payment)}

EncodeAppPayment(payment) ==
  IF NamesObligation(payment) THEN {Padded("ZEB", payment)} ELSE {}

ForcedFrame(m) ==
  {frame \in {m.body} : m.tag = "ZEF" /\ Strict(m) /\ frame.length = "fits"}

EncodeForced(frame) ==
  IF frame.length = "fits" THEN {Padded("ZEF", frame)} ELSE {}

(* forced_account: the signer, where it follows from the key in the frame. *)
ForcedAccount(frame) == {frame.signer} \ {NoAccount}

IsAnchor(m) == m.tag = "ZEA" /\ Strict(m)

Publication(m) == {digest \in {m.body} : m.tag = "ZEP" /\ Strict(m)}
IsPublication(m) == Publication(m) # {}
EncodePublication(digest) == Padded("ZEP", digest)
===============================================================================
