------------------------------ MODULE Commands ------------------------------
(***************************************************************************)
(* One invocation of the program (main.rs): the subcommand, or what the    *)
(* arguments look like, picks the read or the write command, which then    *)
(* runs alone until it ends.                                               *)
(***************************************************************************)
EXTENDS WriteCommand, ReadCommand

vars == <<image, tree, sourceVars, converterVars, writeVars, readVars>>

Init == SourceInit /\ ConverterInit /\ WriteInit /\ ReadInit

NothingStarted == read = "idle" /\ write = "idle"

(* looks_like_write: the options that only the write command has, but for  *)
(* the metadata of an action.                                              *)
LooksLikeWrite(arguments) == \E x \in DOMAIN arguments : arguments[x].opt # "meta"

DispatchRead ==
    /\ NothingStarted /\ ParseCli
    /\ UNCHANGED <<image, tree>> /\ UNCHANGED <<sourceVars, converterVars, writeVars>>

DispatchWrite ==
    /\ NothingStarted
    /\ \E c \in WriteCalls : StartWrite(c)
    /\ UNCHANGED <<image, tree>> /\ UNCHANGED <<sourceVars, converterVars, readVars>>

(* Without a subcommand the read command gets what does not look like      *)
(* `write`, and of the options knows --context only.                       *)
DispatchBare ==
    /\ NothingStarted
    /\ \E c \in WriteCalls :
          ~LooksLikeWrite(c.args) /\ \E x \in DOMAIN c.args : c.args[x].value # "context"
    /\ Stop("error")
    /\ UNCHANGED <<image, tree>> /\ UNCHANGED <<sourceVars, converterVars, writeVars>>

Reading ==
    /\ ReadStep
    /\ UNCHANGED <<image, tree>> /\ UNCHANGED <<sourceVars, converterVars, writeVars>>

Writing == WriteStep /\ UNCHANGED readVars

Ended == read \in {"done", "error"} \/ write \in {"done", "error"}

(* The walk is as deep as the model follows it.  *)
BeyondTheBound ==
    /\ read = "find" /\ listing = <<>> /\ pending # <<>>
    /\ Len(pending[Len(pending)].path) > WalkBound

Finished == (Ended \/ BeyondTheBound) /\ UNCHANGED vars

(* The command goes on, alone, as long as it can ...  *)
Proceed == DispatchRead \/ DispatchWrite \/ DispatchBare \/ Reading \/ Writing \/ Finished

(* ... and nothing makes a read of the source fail.  *)
Fails ==
    /\ ConversionFails
    /\ UNCHANGED <<image, tree>> /\ UNCHANGED <<sourceVars, converterVars, readVars>>

Next == Proceed \/ Fails

Spec == Init /\ [][Next]_vars /\ WF_vars(Proceed)
=============================================================================
