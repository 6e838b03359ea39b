---------------------------------- MODULE Board ----------------------------------
(***************************************************************************)
(* What the console promises of the alerts it shows, with no word of       *)
(* channels, sockets and the aggregator: alerts are numbered as they are   *)
(* published, the console keeps recent ones, each once and in order, and a *)
(* page is shown what is kept and from then on gets newer alerts on top,   *)
(* each at most once - all of it no more than there is room for.  A page   *)
(* that fell behind may be given old ones again, until it comes back.      *)
(* Measurement implements this specification.                              *)
(***************************************************************************)
EXTENDS Naturals, SequencesExt

CONSTANTS
  Pages,
  Alerts,  \* what an alert can be, its number among them as id
  Room

VARIABLES
  published,  \* how many alerts were published
  kept,       \* those the console keeps, oldest first
  page,       \* what each page shows, newest first
  behind      \* the pages that fell behind

vars == <<published, kept, page, behind>>

Init ==
  /\ published = 0
  /\ kept = <<>>
  /\ page = [p \in Pages |-> <<>>]
  /\ behind = {}

Newer(a, s) == \A i \in DOMAIN s : s[i].id < a.id

Publish ==
  /\ published' = published + 1
  /\ UNCHANGED <<kept, page, behind>>

(* What is kept loses its oldest when there is no room.                    *)
Keep(a) ==
  /\ a.id <= published
  /\ Newer(a, kept)
  /\ kept' = Append(IF Len(kept) = Room THEN Tail(kept) ELSE kept, a)
  /\ UNCHANGED <<published, page, behind>>

Show(p) ==
  /\ page' = [page EXCEPT ![p] = Reverse(kept)]
  /\ UNCHANGED <<published, kept, behind>>

(* And so does a page.                                                     *)
Put(p, a) ==
  /\ a.id <= published
  /\ p \in behind \/ Newer(a, page[p])
  /\ LET all == <<a>> \o page[p] IN
       page' = [page EXCEPT ![p] = IF Len(all) > Room THEN SubSeq(all, 1, Room) ELSE all]
  /\ UNCHANGED <<published, kept, behind>>

FallBehind(p) ==
  /\ behind' = behind \cup {p}
  /\ UNCHANGED <<published, kept, page>>

Leave(p) ==
  /\ page' = [page EXCEPT ![p] = <<>>]
  /\ behind' = behind \ {p}
  /\ UNCHANGED <<published, kept>>

Next ==
  \/ Publish
  \/ \E a \in Alerts : Keep(a)
  \/ \E p \in Pages :
       Show(p) \/ FallBehind(p) \/ Leave(p) \/ \E a \in Alerts : Put(p, a)

Spec == Init /\ [][Next]_vars
==================================================================================
