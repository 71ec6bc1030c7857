---------------------------- MODULE OneTimeLinks ----------------------------
(***************************************************************************)
(* The links in letters, as the people who receive them may think of them. *)
(* A link works from when it is made until it is used or superseded, and   *)
(* does not come back.  A call that opened it while it worked may still    *)
(* act on it later, once; rows, senders and recoveries are left out.       *)
(***************************************************************************)
EXTENDS Integers

CONSTANTS Letters, NoMail

VARIABLES kind,      \* kind[l]: what letter l is about
          link,      \* link[l]: "none", "usable" or "dead"
          opened,    \* opened[l]: calls that opened link l while it worked, yet to act
          settled,   \* the kinds there is nothing left to do about
          replaces   \* replaces[l]: the letter that l took the place of

Kinds == {"invitation", "verification", "reset"}

Init ==
    /\ kind \in [Letters -> Kinds]
    /\ link = [l \in Letters |-> "none"]
    /\ opened = [l \in Letters |-> 0]
    /\ settled = {}
    /\ replaces = [l \in Letters |-> NoMail]

(* Links of the kind stop working.                                         *)
Dies(l, k) == kind[l] = k /\ link[l] # "none" /\ link'[l] = "dead"

(* A new link works.  An invitation has one working link, and none once it *)
(* has been accepted or revoked.                                           *)
Made(l) ==
    /\ link[l] = "none"
    /\ link' \in [Letters -> {"none", "usable", "dead"}]
    /\ link'[l] = "usable"
    /\ \A m \in Letters \ {l} : link'[m] = link[m] \/ Dies(m, kind[l])
    /\ kind[l] = "invitation" =>
         /\ "invitation" \notin settled
         /\ \A m \in Letters \ {l} : kind[m] = "invitation" => link'[m] # "usable"

Issue(l) == Made(l) /\ UNCHANGED <<kind, opened, settled, replaces>>

(* A letter that was lost is replaced by one of its kind, once; its own    *)
(* link is dead from then on.                                              *)
Replace(old, new) ==
    /\ Made(new)
    /\ kind[new] = kind[old]
    /\ link'[old] = "dead"
    /\ \A l \in Letters : replaces[l] # old
    /\ replaces' = [replaces EXCEPT ![new] = old]
    /\ UNCHANGED <<kind, opened, settled>>

(* A link is opened to verify an address or reset a password.              *)
Open(l) ==
    /\ kind[l] # "invitation" /\ link[l] = "usable"
    /\ opened' = [opened EXCEPT ![l] = @ + 1]
    /\ UNCHANGED <<kind, link, settled, replaces>>

Done(l) == opened[l] > 0 /\ opened' = [opened EXCEPT ![l] = @ - 1]

GiveUp(l) == Done(l) /\ UNCHANGED <<kind, link, settled, replaces>>

(* The call that opened a link acts on it: the link is dead, and others of *)
(* its kind may be.  A verified address stays so.                          *)
Use(l) ==
    /\ kind[l] # "invitation"
    /\ Done(l)
    /\ link' \in [Letters -> {"none", "usable", "dead"}]
    /\ link'[l] = "dead"
    /\ \A m \in Letters \ {l} : link'[m] = link[m] \/ Dies(m, kind[l])
    /\ settled' = settled \cup ({kind[l]} \ {"reset"})
    /\ UNCHANGED <<kind, replaces>>

(* An invitation is accepted or revoked while its link works.              *)
End ==
    /\ \E l \in Letters : kind[l] = "invitation" /\ link[l] = "usable"
    /\ link' = [l \in Letters |-> IF kind[l] = "invitation" /\ link[l] = "usable"
                                  THEN "dead" ELSE link[l]]
    /\ settled' = settled \cup {"invitation"}
    /\ UNCHANGED <<kind, opened, replaces>>

Next ==
    \/ \E l \in Letters : \/ Issue(l) \/ Open(l) \/ GiveUp(l) \/ Use(l)
                         \/ \E old \in Letters : Replace(old, l)
    \/ End

Spec == Init /\ [][Next]_<<kind, link, opened, settled, replaces>>
==============================================================================
