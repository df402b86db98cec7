---------------------------- MODULE MCSignalStore ----------------------------
(***************************************************************************)
(* Model checking of SignalStore: two operators' shells, an entry in the   *)
(* configuration that seeds one user and another that does not decode.     *)
(***************************************************************************)
EXTENDS SignalStore, TLC

CONSTANTS u1, u2

Entries(u, h, w) == <<[user |-> u, hex |-> h, whole |-> w]>>
Conf(f, fb, e, eb, ok) ==
  [file |-> [backend |-> f, boot |-> fb], env |-> [backend |-> e, boot |-> eb], sound |-> ok]

\* A secret that does not decode, an entry that does not parse, a good one; one
\* for the Firestore backend; configurations that are not valid.
MCConfigs ==
  {Conf("sqlite", Entries(u2, FALSE, TRUE), "",
        Entries(u2, TRUE, FALSE) \o Entries(u1, TRUE, TRUE), TRUE),
   Conf("sqlite", Entries(u1, TRUE, TRUE), "firestore", <<>>, TRUE),
   Conf("sqlite", <<>>, "memory", <<>>, TRUE), Conf("sqlite", <<>>, "", <<>>, FALSE)}

\* One entry for u1, in the file.
OneEntry == {Conf("sqlite", Entries(u1, TRUE, TRUE), "", <<>>, TRUE)}

\* No entry at all.
NoEntry == {Conf("sqlite", <<>>, "", <<>>, TRUE)}
Symmetry == Permutations(Admin)
=============================================================================
