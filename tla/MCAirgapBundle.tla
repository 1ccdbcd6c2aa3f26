--------------------------- MODULE MCAirgapBundle ---------------------------
(* Small instances of AirgapBundle for TLC.                                   *)
EXTENDS AirgapBundle

Image(source, destination) == [source |-> source, destination |-> destination]

\* Two images, one of them named twice; the other image alone; and a list that
\* is refused, since its two sources share a destination.
MCLists == {<<Image("app", "app:1"), Image("app", "app:1"), Image("web", "web:1")>>,
            <<Image("mirror", "app:1")>>,
            <<Image("app", "app:1"), Image("mirror", "app:1")>>}
=============================================================================
