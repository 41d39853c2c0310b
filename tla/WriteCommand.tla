---------------------------- MODULE WriteCommand ----------------------------
(***************************************************************************)
(* The write command (run and parse_args, write/mod.rs): the arguments     *)
(* are parsed into options and a queue of actions, and the mix of the two, *)
(* with what the input is, decides which writer runs.  What the writers    *)
(* do is in ErofsEdit, Ext4Build, SparseContainer and Converter.           *)
(***************************************************************************)
EXTENDS Converter

CONSTANTS
    WriteCalls,     \* [stdin, args]; an argument is [opt, value]
    TreeDepth       \* 512: the levels below the root that a tree may have

ASSUME WriteCallsAssumption ==
    /\ TreeDepth \in Nat
    /\ \A c \in WriteCalls : c.args \in Seq(Range(c.args))

VARIABLES
    args,           \* the arguments but the input and the output
    stdin,          \* the input is "-"
    write,          \* stage: "idle", "parse", "open", "route", "append",
                    \* "overlay", "convert", "done", "error"
    index,          \* the next argument
    config,         \* the options
    queue,          \* the actions: [kind, meta], meta the metadata given
    held,           \* metadata waiting for an action (`pending`)
    spool,          \* the copy of the standard input exists
    route           \* the writer that ran and the options it was told

writeVars == <<args, stdin, write, index, config, queue, held, spool, route>>

FileActions == {"add", "copy", "move"}
MetadataActions == {"set_mode", "set_owner", "set_context"}

NoOptions == [o \in {"sparse", "compact", "compress", "convert", "shared", "reserve"} |-> "unset"]
NoRoute == [writer |-> "none", told |-> NoOptions]

Given(option) == config[option] # "unset"

Arg == args[index]
Parsing == write = "parse" /\ index <= Len(args)
Parsed == index' = index + 1 /\ UNCHANGED <<args, stdin, spool, route>>

FailParsing == write' = "error" /\ UNCHANGED <<args, stdin, index, config, queue, held, spool, route>>

(* Options of the whole command; the last one of a kind counts.  *)
TakeOption ==
    /\ Parsing /\ Arg.opt \in DOMAIN NoOptions
    /\ config' = [config EXCEPT ![Arg.opt] = Arg.value]
    /\ Parsed /\ UNCHANGED <<write, queue, held>>

(* A mutant: what was held stays for the next action too.  *)
KeepHeld == UNCHANGED held
DropHeld == held' = <<>>

(* --add, --cp and --mv take the metadata that was given before them.  *)
TakeFileAction ==
    /\ Parsing /\ Arg.opt \in FileActions
    /\ queue' = Append(queue, [kind |-> Arg.opt, meta |-> held])
    /\ DropHeld
    /\ Parsed /\ UNCHANGED <<write, config>>

TakeOtherAction ==
    /\ Parsing /\ Arg.opt \in MetadataActions \cup {"remove"}
    /\ queue' = Append(queue, [kind |-> Arg.opt, meta |-> <<>>])
    /\ Parsed /\ UNCHANGED <<write, config, held>>

(* Metadata maps what was given to the argument that gave it last.  *)
Replaced(meta, x) ==
    [k \in DOMAIN meta \cup {args[x].value} |-> IF k = args[x].value THEN x ELSE meta[k]]

(* --mode, --uid, --gid, --context: for the preceding action, which must   *)
(* be a file action; held when there is none.                              *)
TakeMetadata ==
    /\ Parsing /\ Arg.opt = "meta"
    /\ IF queue = <<>>
       THEN /\ held' = Replaced(held, index)
            /\ Parsed /\ UNCHANGED <<write, config, queue>>
       ELSE IF queue[Len(queue)].kind \notin FileActions
       THEN FailParsing
       ELSE /\ queue' = [queue EXCEPT ![Len(queue)].meta = Replaced(@, index)]
            /\ held' = [k \in DOMAIN held \ {Arg.value} |-> held[k]]
            /\ Parsed /\ UNCHANGED <<write, config>>

Converts == Given("convert")

(* No actions with a conversion, and without one an action or at least a   *)
(* request to deduplicate or to shrink.                                    *)
BadCall ==
    \/ Converts /\ (queue # <<>> \/ held # <<>>)
    \/ ~Converts /\ queue = <<>> /\ ~Given("shared") /\ ~Given("compact")

Move(stage) == write' = stage /\ UNCHANGED <<args, stdin, index, config, queue, held>>

FinishParsing ==
    /\ write = "parse" /\ index > Len(args)
    /\ Move(IF BadCall THEN "error" ELSE "open")
    /\ UNCHANGED <<spool, route>>

(* The standard input is spooled to a file, and the input is probed.  *)
OpenInput ==
    /\ write = "open"
    /\ spool' = stdin
    /\ Move("route") /\ UNCHANGED route

-----------------------------------------------------------------------------
IsExt4 == image.fs = "ext4"
Compresses == Given("compress") /\ config.compress # "none"
Kinds == {queue[x].kind : x \in DOMAIN queue}
SingleAdd == Len(queue) = 1 /\ Kinds = {"add"}
MetadataOnly == Kinds \subseteq MetadataActions

(* The loaders refuse a tree with anything below its deepest level, as     *)
(* every tree with a directory that lies in itself has (tree_depth).       *)
TooDeep ==
    LET below(dirs) == UNION {{e \in Range(Entries(d)) : e.name \notin Dots} : d \in dirs}
        level[k \in 0..TreeDepth] ==
            IF k = 0 THEN {Root} ELSE {e.to : e \in {x \in below(level[k - 1]) : x.dir}}
    IN  below(level[TreeDepth]) # {}

(* An error that leaves `run` early: the spool is left behind.  *)
Refuse == Move("error") /\ UNCHANGED <<spool, route>>

(* What a writer is told: some of the options, and nothing of the rest.    *)
Only(told) == [o \in DOMAIN NoOptions |-> IF o \in told THEN config[o] ELSE "unset"]

(* A writer has run: the spool is removed.  *)
Ran(writer, told) ==
    /\ route' = [writer |-> writer, told |-> told]
    /\ spool' = FALSE /\ Move("done")

ToExt4 == config.convert = "ext4"
Reencodes == ToExt4 # IsExt4

BadConversion == IF ToExt4 THEN Compresses ELSE Given("reserve") \/ Given("shared")

(* ext4 sources are compressed unless told otherwise.  *)
ConversionAlgo ==
    IF ~ToExt4 /\ ~Given("compress") /\ IsExt4 THEN "lz4"
    ELSE IF ~Given("compress") THEN "none" ELSE config.compress

Convert ==
    /\ write = "route" /\ Converts /\ ~BadConversion
    /\ Reencodes => ~TooDeep
    /\ StartConversion(config.convert,
                       [shared |-> ToExt4 /\ config.shared = "yes",
                        compress |-> ConversionAlgo # "none"])
    /\ Move("convert") /\ UNCHANGED <<spool, route>>

RefuseConversion ==
    /\ write = "route" /\ Converts
    /\ \/ BadConversion /\ Refuse
       \/ /\ ~BadConversion /\ Reencodes /\ TooDeep
          /\ spool' = FALSE /\ Move("error") /\ UNCHANGED route

ConversionRan ==
    /\ write = "convert" /\ convert = "done"
    /\ \/ ~Reencodes /\ Ran("container", Only({"sparse"}))
       \/ Reencodes /\ ToExt4 /\ Ran("convert", Only({"sparse", "shared", "reserve"}))
       \/ Reencodes /\ ~ToExt4 /\ Ran("convert", [Only({"sparse"}) EXCEPT !["compress"] = ConversionAlgo])

(* Reading the source may fail at any block; the spool is removed first.  *)
ConversionFails ==
    /\ write = "convert" /\ Pending
    /\ spool' = FALSE /\ Move("error") /\ UNCHANGED route

Editing == write = "route" /\ ~Converts

(* ext4: removals imply --compact.  Any action may fail.  *)
WriteExt4 ==
    /\ Editing /\ IsExt4
    /\ \/ Refuse
       \/ /\ ~Compresses /\ ~TooDeep
          /\ Ran("ext4", [Only({"sparse", "shared", "reserve", "compact"}) EXCEPT
                            !["compact"] = IF "remove" \in Kinds THEN "yes" ELSE @])

(* EROFS: lz4 when the source has compressed files.  *)
EditAlgo ==
    IF Given("compress") THEN config.compress
    ELSE IF \E x \in DOMAIN image.nodes : image.nodes[x].layout = "compressed" THEN "lz4" ELSE "none"

Rebuild == Ran("rebuild", [Only({"sparse"}) EXCEPT !["compress"] = EditAlgo])

EditingErofs == Editing /\ ~IsExt4 /\ ~Given("reserve") /\ ~TooDeep

(* The reservation is for ext4; any action of the queue may fail.  *)
RefuseErofs == Editing /\ ~IsExt4 /\ Refuse

(* Nothing but metadata: patched in place, unless a context was set.  *)
PatchMetadata ==
    /\ EditingErofs /\ MetadataOnly
    /\ IF "set_context" \in Kinds THEN Rebuild ELSE Ran("patch", Only({}))

(* A mutant: removals do not force the rebuild.  *)
OnlyCompressionRebuilds == Compresses
MustRebuild == "remove" \in Kinds \/ Compresses

RouteFiles ==
    /\ EditingErofs /\ ~MetadataOnly
    /\ IF MustRebuild THEN Rebuild
       ELSE Move(IF SingleAdd THEN "append" ELSE "overlay") /\ UNCHANGED <<spool, route>>

(* Whatever is wrong with the append, the rebuild is tried.  *)
AppendFile ==
    /\ write = "append"
    /\ \/ Ran("append", Only({"sparse"}))
       \/ Rebuild
       \/ Refuse

(* The overlay names the one error that the rebuild is tried for.  *)
OverlayFiles ==
    /\ write = "overlay"
    /\ \/ Ran("overlay", Only({"sparse"}))
       \/ Rebuild
       \/ Refuse

WriteInit ==
    /\ args = <<>> /\ stdin = FALSE /\ write = "idle" /\ index = 1
    /\ config = NoOptions /\ queue = <<>> /\ held = <<>>
    /\ spool = FALSE /\ route = NoRoute

StartWrite(c) ==
    /\ write = "idle"
    /\ args' = c.args /\ stdin' = c.stdin /\ write' = "parse"
    /\ UNCHANGED <<index, config, queue, held, spool, route>>

ParseStep == TakeOption \/ TakeFileAction \/ TakeOtherAction \/ TakeMetadata \/ FinishParsing

EditStep ==
    \/ WriteExt4 \/ RefuseErofs \/ PatchMetadata \/ RouteFiles \/ AppendFile \/ OverlayFiles

WriteStep ==
    \/ /\ ParseStep \/ OpenInput \/ RefuseConversion \/ ConversionRan \/ EditStep
       /\ UNCHANGED <<image, tree>> /\ UNCHANGED <<sourceVars, converterVars>>
    \/ Convert
    \/ write = "convert" /\ ConverterStep /\ UNCHANGED writeVars
=============================================================================
