--------------------------- MODULE MCWebhookInbox ---------------------------
(* Small instances of WebhookInbox for TLC.                                *)
EXTENDS WebhookInbox, TLC

CONSTANTS e1, e2

MCEvents == {e1, e2}

\* Event ids are interchangeable.
Symmetry == Permutations(MCEvents)

=============================================================================
