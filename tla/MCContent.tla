----------------------------- MODULE MCContent -----------------------------
(***************************************************************************)
(* Images, show rooms, the agenda, connected users and sign-in share no    *)
(* state: a step is a step of one of them, and each budget is for one of   *)
(* them.                                                                   *)
(***************************************************************************)
EXTENDS Images, ShowRooms, Agenda, ConnectedUsers, SignIn, TLC

CONSTANTS hero, avatar, banner, logo, e1, e2, utc, west,
          a1, a2, t1, t2, b1, c1, ann, stand, bob, cyd

MCKind == (hero :> "hero") @@ (avatar :> "avatar") @@ (banner :> "banner") @@ (logo :> "logo")
MCOffset == (utc :> 0) @@ (west :> -3)
MCFirstZone == (e1 :> utc) @@ (e2 :> west)
\* ann and the stand of a sponsor chat, bob and cyd exchange cards.
MCFieldOf == (a1 :> ann) @@ (a2 :> ann) @@ (t1 :> stand) @@ (t2 :> stand)
             @@ (b1 :> bob) @@ (c1 :> cyd)
Talks(kind, from, to) == [kind |-> kind, from |-> from, to |-> to]
MCTalk == {Talks("toSponsor", ann, stand), Talks("toUser", stand, ann),
           Talks("ask", bob, cyd), Talks("answer", cyd, bob)}

MCBudgets == {
  [image |-> 2, remove |-> 1], [image |-> 2, fault |-> 1], [image |-> 2, form |-> 1],
  [open |-> 2, close |-> 1], [open |-> 1, broadcast |-> 2],
  [open |-> 1, broadcast |-> 1, close |-> 1, fault |-> 1],
  [list |-> 1, page |-> 4], [schedule |-> 3, change |-> 1],
  [schedule |-> 1, edit |-> 2, fault |-> 1], [schedule |-> 2, edit |-> 1],
  [connect |-> 3, disconnect |-> 2], [connect |-> 2, ask |-> 2, answer |-> 1],
  [connect |-> 3, toSponsor |-> 1, toUser |-> 1, fault |-> 1],
  [connect |-> 2, disconnect |-> 1, ask |-> 1, answer |-> 1, fault |-> 1],
  [signIn |-> 3, connectUser |-> 3] }

Init == ImagesInit /\ ShowsInit /\ AgendaInit /\ HubInit /\ SignInInit
Next ==
  \/ ImagesNext /\ UNCHANGED <<showState, agendaState, hubState, signState>>
  \/ ShowsNext  /\ UNCHANGED <<imageState, agendaState, hubState, signState>>
  \/ AgendaNext /\ UNCHANGED <<imageState, showState, hubState, signState>>
  \/ HubNext    /\ UNCHANGED <<imageState, showState, agendaState, signState>>
  \/ SignInNext /\ UNCHANGED <<imageState, showState, agendaState, hubState>>
Spec == Init /\ [][Next]_<<imageState, showState, agendaState, hubState, signState, left>>
=============================================================================
