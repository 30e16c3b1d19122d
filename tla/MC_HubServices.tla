--------------------------- MODULE MC_HubServices ---------------------------
(* Four calls under three ids on a model that serves two, and one on a     *)
(* model that is not shared; a WhatsApp and an OpenClaw bridge; two        *)
(* hand-offs; an extension.                                                *)
EXTENDS HubServices, TLC

CONSTANTS c1, c2, c3, c4, c5, i1, i2, i3, m, other, wa, oc, p1, p2, h1, h2, h3, v1, q1

MCCalls == {c1, c2, c3, c4, c5}
MCIdOf == c1 :> i1 @@ c2 :> i2 @@ c3 :> i3 @@ c4 :> i1 @@ c5 :> i2
MCModelOf == c1 :> m @@ c2 :> m @@ c3 :> m @@ c4 :> m @@ c5 :> other
MCLimit == m :> 2
MCProvider == wa :> "whatsapp" @@ oc :> "openclaw"
MCPostTo == p1 :> wa @@ p2 :> oc
=============================================================================
