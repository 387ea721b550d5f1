---------------------------- MODULE MCCodexThread ----------------------------
\* An instance of CodexThread for TLC; the bounds are given in the .cfg file.
EXTENDS CodexThread

\* A fresh thread and a resumed one, each with settings its opening request leaves out.
MCStartups ==
    {[resume |-> FALSE, dirs |-> TRUE, model |-> NoVal, effort |-> "cfg", mode |-> "default"],
     [resume |-> TRUE,  dirs |-> TRUE, model |-> "cfg", effort |-> NoVal, mode |-> "plan"]}
=============================================================================
