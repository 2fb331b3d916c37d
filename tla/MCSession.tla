----------------------------- MODULE MCSession -----------------------------
EXTENDS Session

CONSTANTS ann, bob
MCUsers == {ann, bob}
=============================================================================
