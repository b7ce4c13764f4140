--------------------------- MODULE MCLocalStorage ---------------------------
(***************************************************************************)
(* LocalStorage for TLC: the restrictions enumerated.                      *)
(***************************************************************************)
EXTENDS LocalStorage

\* None; a room that keeps what it has and tries to loosen the rest; a room
\* that wants no record; a device at risk behind a sealed shield.
SomeRestrictions ==
  {Unrestricted,
   [Unrestricted EXCEPT !.denies = {"delete", "list"}],
   [Unrestricted EXCEPT !.denies = {"write"}, !.backend = "null"],
   [Unrestricted EXCEPT !.backend = "memory_only", !.risk = "critical", !.sealed = TRUE]}
=============================================================================
