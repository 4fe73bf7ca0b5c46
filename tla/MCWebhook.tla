----------------------------- MODULE MCWebhook -----------------------------
\* An instance of Webhook for TLC: a message and its retry.
EXTENDS Webhook

CONSTANTS r1, r2, m1

MCRequests == {r1, r2}

MCMessages == {m1}
=============================================================================
