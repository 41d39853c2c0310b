--------------------------- MODULE CommandsProofs ---------------------------
(***************************************************************************)
(* Proofs about the commands, for every image, every list of arguments and *)
(* every size of a block: whichever writer runs was told what the user     *)
(* asked for, the pcluster kept decoded is the one it is taken for, the    *)
(* matcher of --find is a glob, and --find prints every path it should.    *)
(***************************************************************************)
EXTENDS CommandPromises, OrderFacts, FiniteSetTheorems

(* What is known at each stage of the write command: that the arguments    *)
(* were not refused, and which tests led to the stage.                     *)
StagesAreSelected ==
    /\ write \in {"open", "route"} => ~BadCall
    /\ write = "convert" => Converts /\ ~BadCall /\ ~BadConversion
    /\ write \in {"append", "overlay"} =>
          ~Given("reserve") /\ ~MustRebuild /\ ~Converts /\ ~IsExt4

WriteInvariant == StagesAreSelected /\ OptionsAreHonoured

(* No step changes the image.                                              *)
LEMMA ImageStays ==
    ASSUME [Next]_vars
    PROVE  UNCHANGED image
<1>1. CASE Writing
    <2>1. CASE Convert
        BY <2>1 DEF Convert, StartConversion
    <2>2. CASE NextFile \/ NextExtent \/ AskChunk \/ WriteChunk \/ FinishConversion
        BY <2>2 DEF NextFile, NextExtent, AskChunk, WriteChunk, FinishConversion
    <2>3. CASE ReadNodeBlock
        BY <2>3 DEF ReadNodeBlock, ServeMemory, ServeExtents, ServePlain, ServeInline, LoadIndex,
               PastSegments, FillGap, CopyStored, CopyDecoded, KeepIndex
    <2>4. CASE UNCHANGED <<image, tree>>
        BY <2>4
    <2> QED BY <1>1, <2>1, <2>2, <2>3, <2>4 DEF Writing, WriteStep, ConverterStep
<1>2. CASE ~Writing
    BY <1>2 DEF Next, Proceed, DispatchRead, DispatchWrite, DispatchBare, Reading, Finished, Fails, vars
<1> QED BY <1>1, <1>2

(* What a writer heard does not depend on the step that follows.           *)
LEMMA HeardStays ==
    ASSUME UNCHANGED <<config, queue, image>>, NEW writer, NEW told
    PROVE  Heard(writer, told)' <=> Heard(writer, told)
<1>1. (Converts' <=> Converts) /\ Kinds' = Kinds
    BY DEF Converts, Given, Kinds
<1>2. Output' = Output
    BY <1>1 DEF Output, ToExt4, IsExt4
<1>3. HasCompressed' <=> HasCompressed
    BY DEF HasCompressed
<1>4. DefaultAlgo(writer)' = DefaultAlgo(writer)
    BY <1>1, <1>2, <1>3 DEF DefaultAlgo
<1>5. ASSUME NEW o
      PROVE  /\ Wanted(writer, o)' = Wanted(writer, o)
             /\ NoOp(o)' <=> NoOp(o)
             /\ Dropped(writer, o)' <=> Dropped(writer, o)
    BY <1>1, <1>2, <1>4 DEF Wanted, Given, NoOp, Dropped
<1> QED BY <1>1, <1>5 DEF Heard

LEMMA RanIsDone ==
    ASSUME NEW writer, NEW told, Ran(writer, told), Heard(writer, told), UNCHANGED image
    PROVE  write' = "done" /\ OptionsAreHonoured'
<1>1. /\ write' = "done" /\ spool' = FALSE /\ UNCHANGED <<config, queue>>
      /\ route' = [writer |-> writer, told |-> told]
    BY DEF Ran, Move
<1>2. Heard(writer, told)'
    BY <1>1, HeardStays
<1>3. route'.writer = writer /\ route'.told = told
    BY <1>1
<1>4. (Heard(route.writer, route.told))'
    BY <1>2, <1>3 DEF Heard, Wanted, DefaultAlgo, NoOp, Dropped
<1> QED BY <1>1, <1>4 DEF OptionsAreHonoured

(* Only tells some options as they are, and nothing of the others.         *)
LEMMA OnlyTells ==
    ASSUME NEW told
    PROVE  /\ DOMAIN NoOptions = {"sparse", "compact", "compress", "convert", "shared", "reserve"}
           /\ \A o \in DOMAIN NoOptions : Only(told)[o] = IF o \in told THEN config[o] ELSE "unset"
<1>1. DOMAIN NoOptions = {"sparse", "compact", "compress", "convert", "shared", "reserve"}
    BY DEF NoOptions
<1>2. Only(told) = [o \in DOMAIN NoOptions |-> IF o \in told THEN config[o] ELSE "unset"]
    BY DEF Only
<1> HIDE DEF Only, NoOptions
<1> QED BY <1>1, <1>2

(* The writers the edit path chooses are told what the options say.        *)
LEMMA RebuildIsTold ==
    ASSUME ~Given("reserve"), ~Converts, ~IsExt4
    PROVE  Heard("rebuild", [Only({"sparse"}) EXCEPT !["compress"] = EditAlgo])
<1> DEFINE told == [Only({"sparse"}) EXCEPT !["compress"] = EditAlgo]
<1>1. /\ DOMAIN NoOptions = {"sparse", "compact", "compress", "convert", "shared", "reserve"}
      /\ told["sparse"] = config["sparse"] /\ told["compress"] = EditAlgo
      /\ told["compact"] = "unset" /\ told["shared"] = "unset" /\ told["reserve"] = "unset"
    BY OnlyTells DEF Only, NoOptions
<1>2. Output = "erofs"
    BY DEF Output
<1>3. EditAlgo = Wanted("rebuild", "compress")
    BY <1>2 DEF EditAlgo, Wanted, DefaultAlgo, HasCompressed, Given
<1>4. config["sparse"] = Wanted("rebuild", "sparse") /\ "unset" = Wanted("rebuild", "reserve")
    BY DEF Wanted, Given
<1>5. NoOp("compact") /\ Dropped("rebuild", "shared")
    BY <1>2 DEF NoOp, Dropped
<1> HIDE DEF told
<1>6. Heard("rebuild", told)
    BY <1>1, <1>3, <1>4, <1>5 DEF Heard
<1> QED BY <1>6 DEF told

LEMMA FastPathIsTold ==
    ASSUME NEW writer \in {"append", "overlay"}, ~Given("reserve"), ~MustRebuild, ~Converts, ~IsExt4
    PROVE  Heard(writer, Only({"sparse"}))
<1> DEFINE told == Only({"sparse"})
<1>1. /\ DOMAIN NoOptions = {"sparse", "compact", "compress", "convert", "shared", "reserve"}
      /\ told["sparse"] = config["sparse"] /\ told["compress"] = "unset"
      /\ told["compact"] = "unset" /\ told["shared"] = "unset" /\ told["reserve"] = "unset"
    BY OnlyTells
<1>2. Output = "erofs"
    BY DEF Output
<1>3. "unset" = Wanted(writer, "compress") \/ Dropped(writer, "compress")
    BY <1>2 DEF MustRebuild, Compresses, Given, Wanted, DefaultAlgo, Dropped
<1>4. config["sparse"] = Wanted(writer, "sparse") /\ "unset" = Wanted(writer, "reserve")
    BY DEF Wanted, Given
<1>5. NoOp("compact") /\ Dropped(writer, "shared")
    BY <1>2 DEF NoOp, Dropped
<1>6. "remove" \notin Kinds
    BY DEF MustRebuild
<1> HIDE DEF told
<1>7. Heard(writer, told)
    BY <1>1, <1>3, <1>4, <1>5, <1>6 DEF Heard
<1> QED BY <1>7 DEF told

LEMMA PatchIsTold ==
    ASSUME ~Given("reserve"), MetadataOnly, ~Converts, ~IsExt4
    PROVE  Heard("patch", Only({}))
<1> DEFINE told == Only({})
<1>1. /\ DOMAIN NoOptions = {"sparse", "compact", "compress", "convert", "shared", "reserve"}
      /\ told["sparse"] = "unset" /\ told["compress"] = "unset"
      /\ told["compact"] = "unset" /\ told["shared"] = "unset" /\ told["reserve"] = "unset"
    BY OnlyTells
<1>2. NoOp("compact") /\ "unset" = Wanted("patch", "reserve")
    BY DEF Output, NoOp, Wanted, Given
<1>3. Dropped("patch", "sparse") /\ Dropped("patch", "shared") /\ Dropped("patch", "compress")
    BY DEF Dropped
<1>4. "remove" \notin Kinds
    BY DEF MetadataOnly, MetadataActions
<1> HIDE DEF told
<1>5. Heard("patch", told)
    BY <1>1, <1>2, <1>3, <1>4 DEF Heard
<1> QED BY <1>5 DEF told

(* A conversion that was not refused, to whichever filesystem.             *)
LEMMA ConversionIsTold ==
    ASSUME Converts, ~BadCall, ~BadConversion, ConversionRan, UNCHANGED image
    PROVE  write' = "done" /\ OptionsAreHonoured'
<1>1. DOMAIN NoOptions = {"sparse", "compact", "compress", "convert", "shared", "reserve"}
    BY OnlyTells
<1>2. "remove" \notin Kinds
    BY DEF BadCall, Kinds
<1>3. \A w : \A o \in DOMAIN NoOptions \ {"compress"} : config[o] = Wanted(w, o)
    BY <1>2 DEF Wanted
<1>4. CASE ~Reencodes /\ Ran("container", Only({"sparse"}))
    <2> DEFINE told == Only({"sparse"})
    <2>1. /\ told["sparse"] = config["sparse"] /\ told["compress"] = "unset"
          /\ told["compact"] = "unset" /\ told["shared"] = "unset" /\ told["reserve"] = "unset"
        BY OnlyTells
    <2>2. \A o \in DOMAIN NoOptions \ {"sparse"} : Dropped("container", o)
        BY DEF Dropped
    <2> HIDE DEF told
    <2>3. Heard("container", told)
        BY <1>1, <1>2, <1>3, <2>1, <2>2 DEF Heard
    <2> QED BY <1>4, <2>3, RanIsDone DEF told
<1>5. CASE Reencodes /\ ToExt4 /\ Ran("convert", Only({"sparse", "shared", "reserve"}))
    <2> DEFINE told == Only({"sparse", "shared", "reserve"})
    <2>1. /\ told["sparse"] = config["sparse"] /\ told["compress"] = "unset"
          /\ told["compact"] = "unset" /\ told["shared"] = config["shared"]
          /\ told["reserve"] = config["reserve"]
        BY OnlyTells
    <2>2. Output = "ext4"
        BY <1>5 DEF Output
    <2>3. Dropped("convert", "compact")
        BY <2>2 DEF Dropped
    <2>4. "unset" = Wanted("convert", "compress") \/ NoOp("compress")
        BY <1>5, <2>2 DEF BadConversion, Compresses, Given, Wanted, DefaultAlgo, NoOp
    <2> HIDE DEF told
    <2>5. Heard("convert", told)
        BY <1>1, <1>2, <1>3, <2>1, <2>3, <2>4 DEF Heard
    <2> QED BY <1>5, <2>5, RanIsDone DEF told
<1>6. CASE /\ Reencodes /\ ~ToExt4
           /\ Ran("convert", [Only({"sparse"}) EXCEPT !["compress"] = ConversionAlgo])
    <2> DEFINE told == [Only({"sparse"}) EXCEPT !["compress"] = ConversionAlgo]
    <2>1. /\ told["sparse"] = config["sparse"] /\ told["compress"] = ConversionAlgo
          /\ told["compact"] = "unset" /\ told["shared"] = "unset" /\ told["reserve"] = "unset"
        BY OnlyTells DEF Only, NoOptions
    <2>2. Output = "erofs"
        BY <1>6 DEF Output
    <2>3. NoOp("compact") /\ config["shared"] = "unset" /\ config["reserve"] = "unset"
        BY <1>6, <2>2 DEF NoOp, BadConversion, Given
    <2>4. ConversionAlgo = Wanted("convert", "compress")
        BY <1>6, <2>2 DEF ConversionAlgo, Reencodes, ToExt4, IsExt4, Given, Wanted, DefaultAlgo
    <2> HIDE DEF told
    <2>5. Heard("convert", told)
        BY <1>1, <1>2, <1>3, <2>1, <2>3, <2>4 DEF Heard
    <2> QED BY <1>6, <2>5, RanIsDone DEF told
<1> QED BY <1>4, <1>5, <1>6 DEF ConversionRan

LEMMA Ext4IsTold ==
    ASSUME ~Converts, IsExt4, ~Compresses
    PROVE  Heard("ext4", [Only({"sparse", "shared", "reserve", "compact"}) EXCEPT
                            !["compact"] = IF "remove" \in Kinds THEN "yes" ELSE @])
<1> DEFINE told == [Only({"sparse", "shared", "reserve", "compact"}) EXCEPT
                      !["compact"] = IF "remove" \in Kinds THEN "yes" ELSE @]
<1>1. /\ DOMAIN NoOptions = {"sparse", "compact", "compress", "convert", "shared", "reserve"}
      /\ told["sparse"] = config["sparse"] /\ told["compress"] = "unset"
      /\ told["compact"] = IF "remove" \in Kinds THEN "yes" ELSE config["compact"]
      /\ told["shared"] = config["shared"] /\ told["reserve"] = config["reserve"]
    BY OnlyTells DEF Only, NoOptions
<1>2. \A o \in DOMAIN NoOptions \ {"compress"} :
          Wanted("ext4", o) = IF o = "compact" /\ "remove" \in Kinds THEN "yes" ELSE config[o]
    BY DEF Wanted
<1>3. "unset" = Wanted("ext4", "compress") \/ NoOp("compress")
    BY DEF Output, Compresses, Given, Wanted, DefaultAlgo, NoOp
<1> HIDE DEF told
<1>4. Heard("ext4", told)
    BY <1>1, <1>2, <1>3 DEF Heard
<1> QED BY <1>4 DEF told

-----------------------------------------------------------------------------
(* Steps of the read command, and of the converter over its source, leave  *)
(* the write command's state alone.                                        *)
LEMMA WriteStateKept ==
    ASSUME WriteInvariant, UNCHANGED writeVars, UNCHANGED image
    PROVE  WriteInvariant'
<1>1. UNCHANGED <<args, write, config, queue, held, spool, route>>
    BY DEF writeVars
<1>2. (BadCall' <=> BadCall) /\ (Converts' <=> Converts) /\ (Compresses' <=> Compresses)
    BY <1>1 DEF BadCall, Converts, Given, Compresses
<1>3. Kinds' = Kinds
    BY <1>1 DEF Kinds
<1>4. (BadConversion' <=> BadConversion) /\ (MustRebuild' <=> MustRebuild)
    BY <1>1, <1>2, <1>3 DEF BadConversion, ToExt4, MustRebuild, Given
<1>5. Heard(route.writer, route.told)' <=> Heard(route.writer, route.told)
    <2>1. PICK writer, told : writer = route.writer /\ told = route.told
        OBVIOUS
    <2>2. Heard(writer, told)' <=> Heard(writer, told)
        BY <1>1, HeardStays
    <2>3. (Heard(route.writer, route.told))' <=> Heard(writer, told)'
        BY <1>1, <2>1 DEF Heard, Wanted, DefaultAlgo, NoOp, Dropped
    <2> QED BY <2>1, <2>2, <2>3
<1>6. (IsExt4' <=> IsExt4)
    BY DEF IsExt4
<1> QED BY <1>6, <1>1, <1>2, <1>4, <1>5 DEF WriteInvariant, StagesAreSelected, OptionsAreHonoured, Given

(* Parsing ends in an error or with arguments that BadCall lets pass.      *)
LEMMA ParsingSelects ==
    ASSUME ParseStep
    PROVE  WriteInvariant'
<1>1. write' \in {"parse", "error"} => WriteInvariant'
    BY DEF WriteInvariant, StagesAreSelected, OptionsAreHonoured
<1>2. CASE TakeOption
    BY <1>1, <1>2 DEF TakeOption, Parsing
<1>3. CASE TakeFileAction
    BY <1>1, <1>3 DEF TakeFileAction, Parsing
<1>4. CASE TakeOtherAction
    BY <1>1, <1>4 DEF TakeOtherAction, Parsing
<1>5. CASE TakeMetadata
    BY <1>1, <1>5 DEF TakeMetadata, Parsing, FailParsing
<1>6. CASE FinishParsing
    <2>1. CASE BadCall
        BY <1>1, <1>6, <2>1 DEF FinishParsing, Move
    <2>2. CASE ~BadCall
        <3>1. write' = "open" /\ UNCHANGED <<queue, held, config>>
            BY <1>6, <2>2 DEF FinishParsing, Move
        <3>2. ~BadCall'
            BY <2>2, <3>1 DEF BadCall, Converts, Given
        <3> QED BY <3>1, <3>2 DEF WriteInvariant, StagesAreSelected, OptionsAreHonoured
    <2> QED BY <2>1, <2>2
<1> QED BY <1>2, <1>3, <1>4, <1>5, <1>6 DEF ParseStep

(* The steps between parsing and the end.                                  *)
LEMMA RoutingTells ==
    ASSUME WriteInvariant, UNCHANGED image,
           OpenInput \/ Convert \/ RefuseConversion \/ ConversionRan \/ ConversionFails \/ EditStep
    PROVE  WriteInvariant'
<1>1. write' = "error" => WriteInvariant'
    BY DEF WriteInvariant, StagesAreSelected, OptionsAreHonoured
<1>2. write' = "done" /\ OptionsAreHonoured' => WriteInvariant'
    BY DEF WriteInvariant, StagesAreSelected
<1>3. Refuse => WriteInvariant'
    BY <1>1 DEF Refuse, Move
<1>4. ASSUME NEW writer, NEW told, Ran(writer, told), Heard(writer, told) PROVE WriteInvariant'
    BY <1>2, <1>4, RanIsDone
<1>5. CASE OpenInput
    <2>1. write' = "route" /\ ~BadCall /\ UNCHANGED <<queue, held, config>>
        BY <1>5 DEF OpenInput, Move, WriteInvariant, StagesAreSelected
    <2>2. ~BadCall'
        BY <2>1 DEF BadCall, Converts, Given
    <2> QED BY <2>1, <2>2 DEF WriteInvariant, StagesAreSelected, OptionsAreHonoured
<1>6. CASE Convert
    <2>1. /\ write' = "convert" /\ ~BadCall /\ Converts /\ ~BadConversion
          /\ UNCHANGED <<queue, held, config>>
        BY <1>6 DEF Convert, Move, WriteInvariant, StagesAreSelected
    <2>2. Converts' /\ ~BadCall' /\ ~BadConversion'
        BY <2>1 DEF BadCall, Converts, Given, BadConversion, ToExt4, Compresses
    <2> QED BY <2>1, <2>2 DEF WriteInvariant, StagesAreSelected, OptionsAreHonoured
<1>7. CASE RefuseConversion
    BY <1>1, <1>3, <1>7 DEF RefuseConversion, Move
<1>8. CASE ConversionRan
    <2>1. Converts /\ ~BadCall /\ ~BadConversion
        BY <1>8 DEF ConversionRan, WriteInvariant, StagesAreSelected
    <2> QED BY <1>2, <1>8, <2>1, ConversionIsTold
<1>9. CASE ConversionFails
    BY <1>1, <1>9 DEF ConversionFails, Move
<1>10. CASE WriteExt4
    <2> DEFINE told == [Only({"sparse", "shared", "reserve", "compact"}) EXCEPT
                          !["compact"] = IF "remove" \in Kinds THEN "yes" ELSE @]
    <2>1. Refuse \/ (~Converts /\ IsExt4 /\ ~Compresses /\ Ran("ext4", told))
        BY <1>10 DEF WriteExt4, Editing
    <2> HIDE DEF told
    <2>2. ~Converts /\ IsExt4 /\ ~Compresses => Heard("ext4", told)
        BY Ext4IsTold DEF told
    <2> QED BY <1>3, <1>4, <2>1, <2>2
<1>11. CASE RefuseErofs
    BY <1>3, <1>11 DEF RefuseErofs
<1>12. ASSUME ~Given("reserve"), ~Converts, ~IsExt4, Rebuild
       PROVE  WriteInvariant'
    <2> DEFINE told == [Only({"sparse"}) EXCEPT !["compress"] = EditAlgo]
    <2>1. Ran("rebuild", told)
        BY <1>12 DEF Rebuild
    <2>2. Heard("rebuild", told)
        BY <1>12, RebuildIsTold
    <2> HIDE DEF told
    <2> QED BY <1>4, <2>1, <2>2
<1>13. CASE PatchMetadata
    <2>1. /\ ~Given("reserve") /\ ~Converts /\ ~IsExt4 /\ MetadataOnly
          /\ Rebuild \/ Ran("patch", Only({}))
        BY <1>13 DEF PatchMetadata, EditingErofs, Editing
    <2>2. Heard("patch", Only({}))
        BY <2>1, PatchIsTold
    <2> QED BY <1>4, <1>12, <2>1, <2>2
<1>14. CASE RouteFiles
    <2>1. ~Given("reserve") /\ ~Converts /\ ~IsExt4
        BY <1>14 DEF RouteFiles, EditingErofs, Editing
    <2>2. CASE MustRebuild
        BY <1>12, <1>14, <2>1, <2>2 DEF RouteFiles
    <2>3. CASE ~MustRebuild
        <3>1. write' \in {"append", "overlay"} /\ UNCHANGED <<queue, config>>
            BY <1>14, <2>3 DEF RouteFiles, Move
        <3>2. Kinds' = Kinds /\ ~Given("reserve")' /\ ~MustRebuild' /\ ~Converts' /\ ~IsExt4'
            BY <2>1, <2>3, <3>1 DEF Given, MustRebuild, Compresses, Kinds, Converts, IsExt4
        <3> QED BY <3>1, <3>2 DEF WriteInvariant, StagesAreSelected, OptionsAreHonoured
    <2> QED BY <2>2, <2>3
<1>15. CASE AppendFile \/ OverlayFiles
    <2>1. ~Given("reserve") /\ ~MustRebuild /\ ~Converts /\ ~IsExt4
        BY <1>15 DEF AppendFile, OverlayFiles, WriteInvariant, StagesAreSelected
    <2>2. \A writer \in {"append", "overlay"} : Heard(writer, Only({"sparse"}))
        BY <2>1, FastPathIsTold
    <2> QED BY <1>3, <1>4, <1>12, <1>15, <2>1, <2>2 DEF AppendFile, OverlayFiles
<1> QED BY <1>5, <1>6, <1>7, <1>8, <1>9, <1>10, <1>11, <1>13, <1>14, <1>15 DEF EditStep

(* Every step of the program keeps the invariant.                          *)
LEMMA WriteInvariantStep ==
    ASSUME WriteInvariant, [Next]_vars
    PROVE  WriteInvariant'
<1> USE ImageStays
<1>1. UNCHANGED vars => UNCHANGED writeVars
    BY DEF vars
<1>2. CASE DispatchRead \/ DispatchBare \/ Reading \/ Finished \/ UNCHANGED vars
    <2>1. UNCHANGED writeVars
        BY <1>1, <1>2 DEF DispatchRead, DispatchBare, Reading, Finished
    <2> QED BY <2>1, WriteStateKept
<1>3. CASE DispatchWrite
    BY <1>3 DEF DispatchWrite, StartWrite, WriteInvariant, StagesAreSelected, OptionsAreHonoured
<1>4. CASE Writing
    <2>1. CASE ParseStep
        BY <2>1, ParsingSelects
    <2>2. CASE OpenInput \/ RefuseConversion \/ ConversionRan \/ EditStep \/ Convert
        BY <2>2, RoutingTells
    <2>3. CASE UNCHANGED writeVars
        BY <2>3, WriteStateKept
    <2> QED BY <1>4, <2>1, <2>2, <2>3 DEF Writing, WriteStep
<1>5. CASE Fails
    BY <1>5, RoutingTells DEF Fails
<1> QED BY <1>2, <1>3, <1>4, <1>5 DEF Next, Proceed

(* A write command that succeeds has told its writer what the user asked   *)
(* for, and removed the copy of the standard input: for every list of      *)
(* arguments and every image.                                              *)
THEOREM WritersAreTold == Spec => []OptionsAreHonoured
<1>1. Init => WriteInvariant
    BY DEF Init, WriteInit, WriteInvariant, StagesAreSelected, OptionsAreHonoured
<1>2. WriteInvariant /\ [Next]_vars => WriteInvariant'
    BY WriteInvariantStep
<1>3. WriteInvariant => OptionsAreHonoured
    BY DEF WriteInvariant
<1> QED BY <1>1, <1>2, <1>3, PTL DEF Spec

-----------------------------------------------------------------------------
(* Only LoadIndex and CopyDecoded touch the cache of ErofsBlockSource.     *)
LEMMA DecodedStep ==
    ASSUME DecodedIsCurrent, [Next]_vars
    PROVE  DecodedIsCurrent'
<1>1. UNCHANGED <<segments, decoded_idx, decoded>> => DecodedIsCurrent'
    BY DEF DecodedIsCurrent, SegmentBytes
<1>2. UNCHANGED sourceVars => DecodedIsCurrent'
    BY <1>1 DEF sourceVars
<1>3. CASE DispatchRead \/ DispatchWrite \/ DispatchBare \/ Reading \/ Finished \/ Fails \/ UNCHANGED vars
    BY <1>2, <1>3 DEF DispatchRead, DispatchWrite, DispatchBare, Reading, Finished, Fails, vars
<1>4. CASE LoadIndex
    BY <1>4 DEF LoadIndex, DecodedIsCurrent
<1>5. CASE CopyDecoded
    BY <1>5 DEF CopyDecoded, DecodedIsCurrent, SegmentBytes
<1>6. CASE ServeMemory \/ ServeExtents \/ ServePlain \/ ServeInline
    BY <1>1, <1>6 DEF ServeMemory, ServeExtents, ServePlain, ServeInline, KeepIndex
<1>7. CASE PastSegments \/ FillGap \/ CopyStored
    BY <1>1, <1>7 DEF PastSegments, FillGap, CopyStored
<1>8. CASE NextFile \/ NextExtent \/ FinishConversion
    BY <1>2, <1>8 DEF NextFile, NextExtent, FinishConversion
<1>9. CASE AskChunk \/ WriteChunk
    BY <1>1, <1>9 DEF AskChunk, WriteChunk
<1>10. CASE Convert
    BY <1>2, <1>10 DEF Convert, StartConversion
<1>11. CASE Writing
    BY <1>2, <1>4, <1>5, <1>6, <1>7, <1>8, <1>9, <1>10, <1>11
        DEF Writing, WriteStep, ConverterStep, ReadNodeBlock
<1> QED BY <1>3, <1>11 DEF Next, Proceed

(* Whatever file and range is asked for after whatever was asked before,   *)
(* the pcluster that is not decoded again is the one in memory.            *)
THEOREM DecodedStaysCurrent == Spec => []DecodedIsCurrent
<1>1. Init => DecodedIsCurrent
    BY DEF Init, SourceInit, DecodedIsCurrent
<1> QED BY <1>1, DecodedStep, PTL DEF Spec

-----------------------------------------------------------------------------
(* Which action the metadata options belong to.  While the arguments are   *)
(* parsed, the actions in the queue and what is held back account for all  *)
(* of them read so far, in terms of the owners that the whole command line *)
(* gives them: an option that is held back has an owner yet to come.       *)
FileActionIn(upto) == \E y \in 1..upto : args[y].opt \in FileActions

(* Metadata: what was given, and the arguments that gave it.               *)
MetaMaps ==
    {m \in UNION {[D -> DOMAIN args] : D \in SUBSET {args[x].value : x \in DOMAIN args}} :
        \A k \in DOMAIN m : args[m[k]].value = k}

Queued == [kind : FileActions \cup MetadataActions \cup {"remove"}, meta : MetaMaps]

(* Among the first arguments, x is the last of its kind that action j owns.*)
Claims(x, j, upto) ==
    /\ x < upto /\ args[x].opt = "meta" /\ OwnerOf(x) = j
    /\ ~\E y \in (x + 1)..(upto - 1) :
           args[y].opt = "meta" /\ args[y].value = args[x].value /\ OwnerOf(y) = j

(* And the last of its kind before every action.                           *)
Waits(x, upto) ==
    /\ x < upto /\ args[x].opt = "meta" /\ ActionsUpTo(x) = {}
    /\ ~\E y \in (x + 1)..(upto - 1) :
           args[y].opt = "meta" /\ args[y].value = args[x].value /\ ActionsUpTo(y) = {}

OwnMetadata ==
    \A j \in DOMAIN queue : \A x \in DOMAIN args :
        x \in Range(queue[j].meta) <=> Claims(x, j, index)

(* What comes before every action is held back for the first file action.  *)
HeldBack ==
    \A x \in DOMAIN args :
        x \in Range(held) <=> Waits(x, index) /\ ~FileActionIn(index - 1)

Listed == args \in Seq(Range(args))

ParseInvariant ==
    /\ Listed /\ index \in 1..(Len(args) + 1)
    /\ write = "idle" => index = 1 /\ queue = <<>> /\ held = <<>>
    /\ write \notin {"idle", "parse", "error"} => index = Len(args) + 1
    /\ queue \in Seq(Queued) /\ held \in MetaMaps
    /\ Len(queue) = Cardinality(ActionsUpTo(index - 1))
    /\ \A j \in DOMAIN queue : queue[j].kind \in FileActions => FileActionIn(index - 1)
    /\ OwnMetadata /\ HeldBack

(* Counting the actions among the first arguments.                         *)
LEMMA CountFacts ==
    ASSUME NEW k \in Nat
    PROVE  /\ Cardinality(ActionsUpTo(k)) \in Nat
           /\ Cardinality(ActionsUpTo(k)) = 0 <=> ActionsUpTo(k) = {}
           /\ \A m \in Nat : m <= k => Cardinality(ActionsUpTo(m)) <= Cardinality(ActionsUpTo(k))
           /\ IsAction(k + 1) => /\ ActionsUpTo(k + 1) # {}
                                 /\ Cardinality(ActionsUpTo(k + 1)) = Cardinality(ActionsUpTo(k)) + 1
           /\ ~IsAction(k + 1) => ActionsUpTo(k + 1) = ActionsUpTo(k)
<1>1. IsFiniteSet(ActionsUpTo(k))
    <2>1. IsFiniteSet(1..k)
        BY FS_Interval
    <2>2. ActionsUpTo(k) \in SUBSET (1..k)
        BY DEF ActionsUpTo
    <2> QED BY <2>1, <2>2, FS_Subset
<1>2. Cardinality(ActionsUpTo(k)) \in Nat
      /\ (Cardinality(ActionsUpTo(k)) = 0 <=> ActionsUpTo(k) = {})
    BY <1>1, FS_CardinalityType, FS_EmptySet
<1>3. ASSUME NEW m \in Nat, m <= k
      PROVE  Cardinality(ActionsUpTo(m)) <= Cardinality(ActionsUpTo(k))
    <2>1. ActionsUpTo(m) \in SUBSET ActionsUpTo(k)
        BY <1>3 DEF ActionsUpTo
    <2> QED BY <1>1, <2>1, FS_Subset
<1>4. 1..(k + 1) = 1..k \cup {k + 1} /\ k + 1 \notin 1..k
    OBVIOUS
<1>5. ASSUME IsAction(k + 1)
      PROVE  /\ ActionsUpTo(k + 1) # {}
             /\ Cardinality(ActionsUpTo(k + 1)) = Cardinality(ActionsUpTo(k)) + 1
    <2>1. ActionsUpTo(k + 1) = ActionsUpTo(k) \cup {k + 1} /\ k + 1 \notin ActionsUpTo(k)
        BY <1>4, <1>5 DEF ActionsUpTo
    <2> QED BY <1>1, <2>1, FS_AddElement
<1>6. ASSUME ~IsAction(k + 1) PROVE ActionsUpTo(k + 1) = ActionsUpTo(k)
    BY <1>4, <1>6 DEF ActionsUpTo
<1> QED BY <1>2, <1>3, <1>5, <1>6

(* An option read earlier belongs to the action read now only if that is   *)
(* the first file action and no action came before the option.             *)
LEMMA OwnerFacts ==
    ASSUME Listed, NEW i \in DOMAIN args, IsAction(i), NEW x \in 1..(i - 1)
    PROVE  OwnerOf(x) = Cardinality(ActionsUpTo(i - 1)) + 1 <=>
               /\ args[i].opt \in FileActions /\ ActionsUpTo(x) = {}
               /\ ~FileActionIn(i - 1)
<1> DEFINE n == Cardinality(ActionsUpTo(i - 1))
           next == {y \in DOMAIN args : args[y].opt \in FileActions}
<1>1. /\ DOMAIN args = 1..Len(args) /\ Len(args) \in Nat /\ i \in Nat /\ x \in Nat
      /\ i - 1 \in Nat /\ (i - 1) + 1 = i /\ x <= i - 1 /\ i \in 1..Len(args)
    BY DEF Listed
<1>2. n \in Nat /\ Cardinality(ActionsUpTo(i)) = n + 1
    BY <1>1, CountFacts
<1>3. CASE ActionsUpTo(x) # {}
    <2>1. OwnerOf(x) = Cardinality(ActionsUpTo(x))
        BY <1>3 DEF OwnerOf
    <2>2. Cardinality(ActionsUpTo(x)) <= n /\ Cardinality(ActionsUpTo(x)) \in Nat
        BY <1>1, CountFacts
    <2> HIDE DEF n
    <2>3. OwnerOf(x) # n + 1
        BY <1>2, <2>1, <2>2
    <2> QED BY <1>3, <2>3 DEF n
<1>4. CASE ActionsUpTo(x) = {} /\ next = {}
    <2>1. OwnerOf(x) = 0
        BY <1>4 DEF OwnerOf
    <2>2. args[i].opt \notin FileActions
        BY <1>4
    <2> HIDE DEF n
    <2>3. OwnerOf(x) # n + 1
        BY <1>2, <2>1
    <2> QED BY <2>2, <2>3 DEF n
<1>5. CASE ActionsUpTo(x) = {} /\ next # {}
    <2> DEFINE m == Min(next)
    <2>1. OwnerOf(x) = Cardinality(ActionsUpTo(m))
        BY <1>5 DEF OwnerOf
    <2>2. m \in next /\ \A y \in next : m <= y
        <3>1. next \subseteq Nat
            BY <1>1
        <3> HIDE DEF next
        <3>2. \E z \in next : \A y \in next : z <= y
            BY <1>5, <3>1, LeastElement
        <3> QED BY <3>2 DEF Min
    <2>3. m \in 1..Len(args) /\ args[m].opt \in FileActions /\ IsAction(m)
        BY <1>1, <2>2 DEF IsAction
    <2>4. FileActionIn(i - 1) <=> m < i
        <3>1. ASSUME m < i PROVE FileActionIn(i - 1)
            <4>1. m \in 1..(i - 1)
                BY <1>1, <2>3, <3>1
            <4> QED BY <2>3, <4>1 DEF FileActionIn
        <3>2. ASSUME FileActionIn(i - 1) PROVE m < i
            <4>1. PICK y \in 1..(i - 1) : args[y].opt \in FileActions
                BY <3>2 DEF FileActionIn
            <4>2. y \in DOMAIN args
                BY <1>1
            <4>3. m <= y
                BY <2>2, <4>1, <4>2
            <4> HIDE DEF m
            <4> QED BY <1>1, <2>3, <4>3
        <3> QED BY <3>1, <3>2
    <2>5. args[i].opt \in FileActions => m <= i
        BY <2>2
    <2> HIDE DEF m, next
    <2>6. CASE m < i
        <3>1. Cardinality(ActionsUpTo(m)) <= n /\ Cardinality(ActionsUpTo(m)) \in Nat
            BY <1>1, <2>3, <2>6, CountFacts
        <3> HIDE DEF n
        <3>2. OwnerOf(x) # n + 1
            BY <1>2, <2>1, <3>1
        <3> QED BY <2>4, <2>6, <3>2 DEF n
    <2>7. CASE m = i
        BY <1>2, <1>5, <2>1, <2>3, <2>4, <2>7
    <2>8. CASE i < m
        <3>1. m - 1 \in Nat /\ (m - 1) + 1 = m /\ i <= m - 1
            BY <1>1, <2>3, <2>8
        <3>2. /\ Cardinality(ActionsUpTo(m)) = Cardinality(ActionsUpTo(m - 1)) + 1
              /\ Cardinality(ActionsUpTo(i)) <= Cardinality(ActionsUpTo(m - 1))
              /\ Cardinality(ActionsUpTo(m - 1)) \in Nat
            BY <1>1, <2>3, <3>1, CountFacts
        <3> HIDE DEF n
        <3>3. OwnerOf(x) # n + 1
            BY <1>2, <2>1, <3>2
        <3>4. args[i].opt \notin FileActions
            BY <1>1, <2>3, <2>5, <2>8
        <3> QED BY <3>3, <3>4 DEF n
    <2> QED BY <1>1, <2>3, <2>6, <2>7, <2>8
<1> QED BY <1>3, <1>4, <1>5

(* Metadata taken up replaces what was given of its kind, and no more.     *)
LEMMA ReplacedFacts ==
    ASSUME NEW m \in MetaMaps, NEW x \in DOMAIN args
    PROVE  /\ Replaced(m, x) \in MetaMaps
           /\ \A y \in DOMAIN args : y \in Range(Replaced(m, x)) <=>
                  y = x \/ (y \in Range(m) /\ args[y].value # args[x].value)
<1> DEFINE keys == {args[z].value : z \in DOMAIN args}
           new == Replaced(m, x)
           key == args[x].value
<1>1. PICK D \in SUBSET keys : m \in [D -> DOMAIN args]
    BY DEF MetaMaps
<1>2. \A k \in D : args[m[k]].value = k /\ m[k] \in DOMAIN args
    BY <1>1 DEF MetaMaps
<1>3. /\ DOMAIN new = D \cup {key} /\ new[key] = x
      /\ \A k \in D : k # key => new[k] = m[k]
    BY <1>1 DEF Replaced
<1>4. new \in [D \cup {key} -> DOMAIN args]
    BY <1>1 DEF Replaced
<1>5. D \cup {key} \in SUBSET keys
    BY <1>1
<1>6. \A k \in DOMAIN new : args[new[k]].value = k
    BY <1>2, <1>3
<1>7. new \in MetaMaps
    BY <1>4, <1>5, <1>6 DEF MetaMaps
<1> HIDE DEF new, keys
<1>8. ASSUME NEW y \in DOMAIN args
      PROVE  y \in Range(new) <=> y = x \/ (y \in Range(m) /\ args[y].value # key)
    <2>1. y \in Range(new) <=> \E k \in D \cup {key} : new[k] = y
        BY <1>3 DEF Range
    <2>2. y \in Range(m) <=> \E k \in D : m[k] = y
        BY <1>1 DEF Range
    <2>3. ASSUME NEW k \in D, m[k] = y, args[y].value # key
          PROVE  new[k] = y
        BY <1>2, <1>3, <2>3
    <2>4. ASSUME NEW k \in D, new[k] = y, k # key
          PROVE  m[k] = y /\ args[y].value # key
        BY <1>2, <1>3, <2>4
    <2> QED BY <1>3, <2>1, <2>2, <2>3, <2>4
<1> QED BY <1>7, <1>8 DEF new

(* How one more argument changes what is the last of its kind.             *)
LEMMA OneMoreArgument ==
    ASSUME NEW i \in Nat, NEW x \in Nat
    PROVE  /\ args[i].opt # "meta" =>
                  /\ \A j : Claims(x, j, i + 1) <=> Claims(x, j, i)
                  /\ Waits(x, i + 1) <=> Waits(x, i)
           /\ args[i].opt = "meta" =>
                  /\ \A j : Claims(x, j, i + 1) <=>
                         \/ x = i /\ OwnerOf(i) = j
                         \/ Claims(x, j, i) /\ ~(args[i].value = args[x].value /\ OwnerOf(i) = j)
                  /\ Waits(x, i + 1) <=>
                         \/ x = i /\ ActionsUpTo(i) = {}
                         \/ Waits(x, i) /\ ~(args[i].value = args[x].value /\ ActionsUpTo(i) = {})
<1>1. CASE x < i
    <2>1. x < i + 1 /\ x # i /\ (x + 1)..((i + 1) - 1) = (x + 1)..(i - 1) \cup {i}
        BY <1>1
    <2>2. \A j : Claims(x, j, i + 1) <=>
              /\ args[x].opt = "meta" /\ OwnerOf(x) = j
              /\ ~\E y \in (x + 1)..(i - 1) :
                     args[y].opt = "meta" /\ args[y].value = args[x].value /\ OwnerOf(y) = j
              /\ ~(args[i].opt = "meta" /\ args[i].value = args[x].value /\ OwnerOf(i) = j)
        BY <2>1 DEF Claims
    <2>3. Waits(x, i + 1) <=>
              /\ args[x].opt = "meta" /\ ActionsUpTo(x) = {}
              /\ ~\E y \in (x + 1)..(i - 1) :
                     args[y].opt = "meta" /\ args[y].value = args[x].value /\ ActionsUpTo(y) = {}
              /\ ~(args[i].opt = "meta" /\ args[i].value = args[x].value /\ ActionsUpTo(i) = {})
        BY <2>1 DEF Waits
    <2>4. \A j : Claims(x, j, i) <=>
              /\ args[x].opt = "meta" /\ OwnerOf(x) = j
              /\ ~\E y \in (x + 1)..(i - 1) :
                     args[y].opt = "meta" /\ args[y].value = args[x].value /\ OwnerOf(y) = j
        BY <1>1 DEF Claims
    <2>5. Waits(x, i) <=>
              /\ args[x].opt = "meta" /\ ActionsUpTo(x) = {}
              /\ ~\E y \in (x + 1)..(i - 1) :
                     args[y].opt = "meta" /\ args[y].value = args[x].value /\ ActionsUpTo(y) = {}
        BY <1>1 DEF Waits
    <2> QED BY <2>1, <2>2, <2>3, <2>4, <2>5
<1>2. CASE x = i
    <2>1. (x + 1)..((i + 1) - 1) = {} /\ x < i + 1 /\ ~(x < i)
        BY <1>2
    <2>2. \A j : Claims(x, j, i + 1) <=> args[i].opt = "meta" /\ OwnerOf(i) = j
        BY <1>2, <2>1 DEF Claims
    <2>3. Waits(x, i + 1) <=> args[i].opt = "meta" /\ ActionsUpTo(i) = {}
        BY <1>2, <2>1 DEF Waits
    <2>4. (\A j : ~Claims(x, j, i)) /\ ~Waits(x, i)
        BY <2>1 DEF Claims, Waits
    <2> QED BY <1>2, <2>2, <2>3, <2>4
<1>3. CASE i < x
    <2>1. ~(x < i + 1) /\ ~(x < i) /\ x # i
        BY <1>3
    <2> QED BY <2>1 DEF Claims, Waits
<1> QED BY <1>1, <1>2, <1>3

(* What is said of the arguments alone changes only with them.             *)
LEMMA SameArguments ==
    ASSUME args' = args
    PROVE  /\ Listed' = Listed /\ MetaMaps' = MetaMaps /\ Queued' = Queued
           /\ \A x : ActionsUpTo(x)' = ActionsUpTo(x)
           /\ \A x, j, u : Claims(x, j, u)' = Claims(x, j, u)
           /\ \A x, u : Waits(x, u)' = Waits(x, u)
           /\ \A u : FileActionIn(u)' = FileActionIn(u)
<1>1. \A x : ActionsUpTo(x)' = ActionsUpTo(x)
    BY DEF ActionsUpTo, IsAction
<1>2. \A x : OwnerOf(x)' = OwnerOf(x)
    BY <1>1 DEF OwnerOf
<1>3. MetaMaps' = MetaMaps
    BY DEF MetaMaps
<1>4. \A x, j, u : Claims(x, j, u)' = Claims(x, j, u)
    BY <1>2 DEF Claims
<1>5. \A x, u : Waits(x, u)' = Waits(x, u)
    BY <1>1 DEF Waits
<1>6. \A u : FileActionIn(u)' = FileActionIn(u)
    BY DEF FileActionIn
<1> QED BY <1>1, <1>3, <1>4, <1>5, <1>6 DEF Listed, Queued

(* Steps after the parsing, or of other parts of the program.              *)
LEMMA ParsedStays ==
    ASSUME ParseInvariant, UNCHANGED <<args, index, queue, held>>,
           write' = "idle" => write = "idle",
           write' \notin {"idle", "parse", "error"} =>
               write \notin {"idle", "parse", "error"} \/ index = Len(args) + 1
    PROVE  ParseInvariant'
<1>1. OwnMetadata' = OwnMetadata /\ HeldBack' = HeldBack
    BY SameArguments DEF OwnMetadata, HeldBack
<1> QED BY <1>1, SameArguments DEF ParseInvariant

(* The command line is there, and nothing of it is read.                   *)
LEMMA ParsingStarts ==
    ASSUME ParseInvariant, NEW c \in WriteCalls, StartWrite(c)
    PROVE  ParseInvariant'
<1>1. /\ args' = c.args /\ write' = "parse" /\ index = 1 /\ queue = <<>> /\ held = <<>>
      /\ index' = 1 /\ queue' = <<>> /\ held' = <<>>
    BY DEF StartWrite, ParseInvariant
<1>2. Listed' /\ Len(args') \in Nat
    BY <1>1, WriteCallsAssumption DEF Listed
<1>3. held' \in MetaMaps' /\ DOMAIN held' = {}
    <2>1. held' \in [{} -> DOMAIN args'] /\ DOMAIN held' = {}
        BY <1>1
    <2> QED BY <2>1 DEF MetaMaps
<1>4. Cardinality(ActionsUpTo(0)') = 0 /\ ~FileActionIn(0)'
    <2>1. ActionsUpTo(0)' = {}
        BY DEF ActionsUpTo
    <2> QED BY <2>1, FS_EmptySet DEF FileActionIn
<1>5. HeldBack'
    <2>1. \A x \in DOMAIN args' : x \notin Range(held)' /\ ~Waits(x, 1)'
        <3> TAKE x \in DOMAIN args'
        <3>1. x \in Nat \ {0}
            BY <1>2 DEF Listed
        <3>2. ~(x < 1)
            BY <3>1
        <3> QED BY <1>3, <3>2 DEF Range, Waits
    <2> QED BY <1>1, <2>1 DEF HeldBack
<1>6. OwnMetadata'
    BY <1>1 DEF OwnMetadata
<1>7. queue' \in Seq(Queued') /\ Len(queue') = 0 /\ DOMAIN queue' = {}
    BY <1>1
<1> QED BY <1>1, <1>2, <1>3, <1>4, <1>5, <1>6, <1>7 DEF ParseInvariant

(* The argument at hand, in a state where there is one.                    *)
LEMMA AtArgument ==
    ASSUME ParseInvariant, Parsing
    PROVE  /\ index \in DOMAIN args /\ index \in Nat /\ index - 1 \in Nat
           /\ (index - 1) + 1 = index /\ (index + 1) - 1 = index
           /\ DOMAIN args = 1..Len(args) /\ Len(args) \in Nat
           /\ index + 1 \in 1..(Len(args) + 1) /\ Arg = args[index]
           /\ FileActionIn(index) <=>
                  FileActionIn(index - 1) \/ args[index].opt \in FileActions
           /\ queue \in Seq(Queued) /\ Len(queue) \in Nat /\ DOMAIN queue = 1..Len(queue)
           /\ Len(queue) = Cardinality(ActionsUpTo(index - 1))
<1>1. /\ Listed /\ index \in 1..(Len(args) + 1) /\ index <= Len(args)
      /\ queue \in Seq(Queued) /\ Len(queue) = Cardinality(ActionsUpTo(index - 1))
    BY DEF ParseInvariant, Parsing
<1>2. DOMAIN args = 1..Len(args) /\ Len(args) \in Nat
    BY <1>1 DEF Listed
<1>3. /\ index \in DOMAIN args /\ index \in Nat /\ index - 1 \in Nat
      /\ (index - 1) + 1 = index /\ (index + 1) - 1 = index
      /\ index + 1 \in 1..(Len(args) + 1) /\ 1..index = 1..(index - 1) \cup {index}
    BY <1>1, <1>2
<1>4. FileActionIn(index) <=> FileActionIn(index - 1) \/ args[index].opt \in FileActions
    BY <1>3 DEF FileActionIn
<1> QED BY <1>1, <1>2, <1>3, <1>4 DEF Arg

(* An option of the whole command is nobody's metadata.                    *)
LEMMA OptionKeeps ==
    ASSUME ParseInvariant, TakeOption
    PROVE  ParseInvariant'
<1>1. /\ Parsing /\ Arg.opt \in DOMAIN NoOptions /\ index' = index + 1
      /\ UNCHANGED <<args, write, queue, held>>
    BY DEF TakeOption, Parsed
<1>2. write = "parse"
    BY <1>1 DEF Parsing
<1>3. Arg.opt \in {"sparse", "compact", "compress", "convert", "shared", "reserve"}
    BY <1>1 DEF NoOptions
<1>4. args[index].opt # "meta" /\ args[index].opt \notin FileActions /\ ~IsAction(index)
    <2>1. Arg = args[index]
        BY DEF Arg
    <2> QED BY <1>3, <2>1 DEF IsAction, FileActions, MetadataActions
<1>5. /\ ActionsUpTo(index) = ActionsUpTo(index - 1)
      /\ FileActionIn(index) <=> FileActionIn(index - 1)
    BY <1>1, <1>4, AtArgument, CountFacts
<1>6. \A x \in DOMAIN args : /\ \A j : Claims(x, j, index + 1) <=> Claims(x, j, index)
                             /\ Waits(x, index + 1) <=> Waits(x, index)
    BY <1>1, <1>4, AtArgument, OneMoreArgument
<1>7. OwnMetadata'
    BY <1>1, <1>6, SameArguments DEF OwnMetadata, ParseInvariant
<1>8. HeldBack'
    BY <1>1, <1>5, <1>6, AtArgument, SameArguments DEF HeldBack, ParseInvariant
<1> QED BY <1>1, <1>2, <1>5, <1>7, <1>8, AtArgument, SameArguments DEF ParseInvariant

(* A new action takes what was held back, if it is the first file action.  *)
LEMMA ActionKeeps ==
    ASSUME ParseInvariant, TakeFileAction \/ TakeOtherAction
    PROVE  ParseInvariant'
<1> DEFINE isFile == args[index].opt \in FileActions
           given == IF isFile THEN held ELSE <<>>
           n == Len(queue)
           new == [kind |-> args[index].opt, meta |-> given]
<1>1. /\ Parsing /\ index' = index + 1 /\ UNCHANGED <<args, write>>
      /\ queue' = Append(queue, new)
      /\ held' = IF isFile THEN <<>> ELSE held
      /\ args[index].opt \in FileActions \cup MetadataActions \cup {"remove"}
    <2>1. CASE TakeFileAction
        BY <2>1 DEF TakeFileAction, Parsed, DropHeld, Arg
    <2>2. CASE TakeOtherAction
        <3>1. ~isFile
            BY <2>2 DEF TakeOtherAction, Arg, FileActions, MetadataActions
        <3> QED BY <2>2, <3>1 DEF TakeOtherAction, Parsed, Arg
    <2> QED BY <2>1, <2>2
<1>2. /\ index \in DOMAIN args /\ index \in Nat /\ index - 1 \in Nat
      /\ (index - 1) + 1 = index /\ (index + 1) - 1 = index
      /\ DOMAIN args = 1..Len(args) /\ Len(args) \in Nat
      /\ index + 1 \in 1..(Len(args) + 1)
      /\ FileActionIn(index) <=> FileActionIn(index - 1) \/ isFile
      /\ queue \in Seq(Queued) /\ n \in Nat /\ DOMAIN queue = 1..n
      /\ n = Cardinality(ActionsUpTo(index - 1))
    BY <1>1, AtArgument
<1>3. write = "parse" /\ held \in MetaMaps /\ OwnMetadata /\ HeldBack /\ Listed
    BY <1>1 DEF Parsing, ParseInvariant
<1>4. args[index].opt # "meta" /\ IsAction(index)
    BY <1>1 DEF IsAction, FileActions, MetadataActions
<1>5. ActionsUpTo(index) # {} /\ Cardinality(ActionsUpTo(index)) = n + 1
    BY <1>2, <1>4, CountFacts
<1>6. \A x \in DOMAIN args : /\ \A j : Claims(x, j, index + 1) <=> Claims(x, j, index)
                             /\ Waits(x, index + 1) <=> Waits(x, index)
    BY <1>2, <1>4, OneMoreArgument
<1>7. <<>> \in MetaMaps /\ Range(<<>>) = {}
    <2>1. <<>> \in [{} -> DOMAIN args] /\ DOMAIN <<>> = {}
        OBVIOUS
    <2>2. <<>> \in MetaMaps
        BY <2>1 DEF MetaMaps
    <2> QED BY <2>1, <2>2 DEF Range
<1>8. given \in MetaMaps /\ held' \in MetaMaps
    BY <1>1, <1>3, <1>7
<1> HIDE DEF given
<1>9. new \in Queued /\ new.kind = args[index].opt /\ new.meta = given
    BY <1>1, <1>8 DEF Queued
<1> HIDE DEF new, n
<1>10. /\ queue' \in Seq(Queued) /\ Len(queue') = n + 1 /\ DOMAIN queue' = 1..(n + 1)
       /\ \A j \in 1..n : queue'[j] = queue[j]
       /\ queue'[n + 1] = new
    BY <1>1, <1>2, <1>9 DEF n
<1>11. \A j \in DOMAIN queue' : queue'[j].kind \in FileActions => FileActionIn(index)
    <2> TAKE j \in DOMAIN queue'
    <2>1. CASE j \in 1..n
        BY <1>2, <1>10, <2>1 DEF ParseInvariant
    <2>2. CASE j = n + 1
        BY <1>2, <1>9, <1>10, <2>2
    <2> QED BY <1>2, <1>10, <2>1, <2>2
<1>12. ASSUME NEW x \in DOMAIN args
       PROVE  x \in Range(given) <=> Claims(x, n + 1, index)
    <2>1. CASE ~(x < index)
        <3>1. ~Claims(x, n + 1, index) /\ ~Waits(x, index)
            BY <2>1 DEF Claims, Waits
        <3> QED BY <1>3, <1>7, <3>1 DEF HeldBack, given
    <2>2. CASE x < index
        <3>1. x \in 1..(index - 1) /\ x \in Nat
            BY <1>2, <2>2
        <3>2. \A y \in 1..(index - 1) :
                  OwnerOf(y) = n + 1 <=> isFile /\ ActionsUpTo(y) = {} /\ ~FileActionIn(index - 1)
            BY <1>2, <1>3, <1>4, OwnerFacts
        <3>3. \A y \in (x + 1)..(index - 1) : y \in 1..(index - 1)
            BY <3>1
        <3>4. Claims(x, n + 1, index) <=> isFile /\ ~FileActionIn(index - 1) /\ Waits(x, index)
            <4>1. CASE isFile /\ ~FileActionIn(index - 1)
                <5>1. \A y \in 1..(index - 1) : OwnerOf(y) = n + 1 <=> ActionsUpTo(y) = {}
                    BY <3>2, <4>1
                <5> HIDE DEF isFile
                <5> QED BY <3>1, <3>3, <4>1, <5>1 DEF Claims, Waits
            <4>2. CASE ~(isFile /\ ~FileActionIn(index - 1))
                BY <3>1, <3>2, <4>2 DEF Claims
            <4> QED BY <4>1, <4>2
        <3> QED BY <1>3, <1>7, <3>4 DEF HeldBack, given
    <2> QED BY <2>1, <2>2
<1>13. OwnMetadata'
    <2>1. ASSUME NEW j \in 1..(n + 1), NEW x \in DOMAIN args
          PROVE  x \in Range(queue'[j].meta) <=> Claims(x, j, index + 1)
        <3>1. CASE j \in 1..n
            BY <1>2, <1>3, <1>6, <1>10, <3>1 DEF OwnMetadata
        <3>2. CASE j = n + 1
            BY <1>6, <1>9, <1>10, <1>12, <3>2
        <3>3. n \in Nat
            BY <1>2
        <3> QED BY ONLY <3>1, <3>2, <3>3, j \in 1..(n + 1)
    <2> QED BY <1>1, <1>10, <2>1, SameArguments DEF OwnMetadata
<1>14. HeldBack'
    <2>1. ASSUME NEW x \in DOMAIN args
          PROVE  x \in Range(held') <=> Waits(x, index + 1) /\ ~FileActionIn(index)
        BY <1>1, <1>2, <1>3, <1>6, <1>7 DEF HeldBack
    <2> QED BY <1>1, <1>2, <2>1, SameArguments DEF HeldBack
<1>15. Len(queue') = Cardinality(ActionsUpTo(index))
    BY <1>5, <1>10
<1> QED BY <1>1, <1>2, <1>3, <1>8, <1>10, <1>11, <1>13, <1>14, <1>15, SameArguments
        DEF ParseInvariant

(* An option of metadata goes to the last action, or is held back.         *)
LEMMA MetadataKeeps ==
    ASSUME ParseInvariant, TakeMetadata
    PROVE  ParseInvariant'
<1> DEFINE n == Len(queue)
<1>1. /\ Parsing /\ args[index].opt = "meta" /\ write = "parse"
    BY DEF TakeMetadata, Arg, Parsing
<1>2. /\ index \in DOMAIN args /\ index \in Nat /\ index - 1 \in Nat
      /\ (index - 1) + 1 = index /\ (index + 1) - 1 = index
      /\ DOMAIN args = 1..Len(args) /\ Len(args) \in Nat
      /\ index + 1 \in 1..(Len(args) + 1)
      /\ FileActionIn(index) <=>
             FileActionIn(index - 1) \/ args[index].opt \in FileActions
      /\ queue \in Seq(Queued) /\ n \in Nat /\ DOMAIN queue = 1..n
      /\ n = Cardinality(ActionsUpTo(index - 1))
    BY <1>1, AtArgument
<1>3. held \in MetaMaps /\ OwnMetadata /\ HeldBack /\ Listed
    BY DEF ParseInvariant
<1>4. /\ ~IsAction(index) /\ args[index].opt \notin FileActions
      /\ ActionsUpTo(index) = ActionsUpTo(index - 1)
      /\ FileActionIn(index) <=> FileActionIn(index - 1)
    <2>1. ~IsAction(index) /\ args[index].opt \notin FileActions
        BY <1>1 DEF IsAction, FileActions, MetadataActions
    <2> QED BY <1>2, <2>1, CountFacts
<1>5. \A x \in DOMAIN args :
          /\ \A j : Claims(x, j, index + 1) <=>
                 \/ x = index /\ OwnerOf(index) = j
                 \/ Claims(x, j, index)
                    /\ ~(args[index].value = args[x].value /\ OwnerOf(index) = j)
          /\ Waits(x, index + 1) <=>
                 \/ x = index /\ ActionsUpTo(index) = {}
                 \/ Waits(x, index)
                    /\ ~(args[index].value = args[x].value /\ ActionsUpTo(index) = {})
    <2> TAKE x \in DOMAIN args
    <2>1. x \in Nat
        BY <1>2
    <2> HIDE DEF n
    <2> QED BY <1>1, <1>2, <2>1, OneMoreArgument
<1>6. CASE queue = <<>>
    <2>1. held' = Replaced(held, index) /\ index' = index + 1 /\ UNCHANGED <<args, write, queue>>
        BY <1>6 DEF TakeMetadata, Parsed
    <2>2. ActionsUpTo(index) = {}
        BY <1>2, <1>4, <1>6, CountFacts
    <2>3. ~FileActionIn(index)
        <3>1. \A y \in 1..index : ~IsAction(y)
            BY <2>2 DEF ActionsUpTo
        <3> QED BY <3>1 DEF FileActionIn, IsAction
    <2>4. held' \in MetaMaps
        BY <1>2, <1>3, <2>1, ReplacedFacts
    <2>5. HeldBack'
        <3>1. ASSUME NEW x \in DOMAIN args
              PROVE  x \in Range(held') <=> Waits(x, index + 1) /\ ~FileActionIn(index)
            <4>1. x \in Range(held') <=>
                      x = index \/ (x \in Range(held) /\ args[x].value # args[index].value)
                BY <1>2, <1>3, <2>1, ReplacedFacts
            <4> QED BY <1>3, <1>4, <1>5, <2>2, <2>3, <4>1 DEF HeldBack
        <3> QED BY <1>2, <2>1, <3>1, SameArguments DEF HeldBack
    <2>6. OwnMetadata'
        BY <1>6, <2>1 DEF OwnMetadata
    <2>7. Len(queue') = Cardinality(ActionsUpTo(index)) /\ queue' = <<>> /\ DOMAIN queue' = {}
        BY <1>2, <1>4, <1>6, <2>1
    <2> QED BY <1>1, <1>2, <1>3, <2>1, <2>4, <2>5, <2>6, <2>7, SameArguments
            DEF ParseInvariant
<1>7. CASE queue # <<>> /\ queue[Len(queue)].kind \notin FileActions
    <2>1. FailParsing
        BY <1>7 DEF TakeMetadata
    <2> QED BY <2>1, ParsedStays DEF FailParsing
<1>8. CASE queue # <<>> /\ queue[Len(queue)].kind \in FileActions
    <2>1. /\ queue' = [queue EXCEPT ![n].meta = Replaced(@, index)]
          /\ held' = [k \in DOMAIN held \ {Arg.value} |-> held[k]]
          /\ index' = index + 1 /\ UNCHANGED <<args, write>>
        BY <1>8 DEF TakeMetadata, Parsed
    <2>2. n \in DOMAIN queue
        BY <1>2, <1>8
    <2>3. FileActionIn(index - 1) /\ FileActionIn(index)
        BY <1>4, <1>8, <2>2 DEF ParseInvariant
    <2>4. DOMAIN held = {}
        <3>1. \A x \in DOMAIN args : x \notin Range(held)
            BY <1>3, <2>3 DEF HeldBack
        <3>2. \A k \in DOMAIN held : held[k] \in DOMAIN args
            BY <1>3 DEF MetaMaps
        <3> QED BY <3>1, <3>2 DEF Range
    <2>5. held' \in MetaMaps /\ \A x : x \notin Range(held')
        <3>1. held' \in [{} -> DOMAIN args] /\ DOMAIN held' = {}
            BY <2>1, <2>4
        <3> QED BY <3>1 DEF MetaMaps, Range
    <2>6. HeldBack'
        BY <1>2, <2>1, <2>3, <2>5, SameArguments DEF HeldBack
    <2> DEFINE old == queue[n].meta
               now == Replaced(old, index)
    <2>7. queue[n] \in Queued
        BY <1>2, <2>2
    <2>8. old \in MetaMaps
        BY <2>7 DEF Queued
    <2>9. /\ now \in MetaMaps
          /\ \A x \in DOMAIN args : x \in Range(now) <=>
                 x = index \/ (x \in Range(old) /\ args[x].value # args[index].value)
        BY <1>2, <2>8, ReplacedFacts
    <2> HIDE DEF now
    <2> DEFINE last == [queue[n] EXCEPT !.meta = now]
    <2>10. last \in Queued /\ last.meta = now /\ last.kind = queue[n].kind
        BY <2>7, <2>9 DEF Queued
    <2>11. queue' = [queue EXCEPT ![n] = last]
        BY <2>1 DEF now
    <2> HIDE DEF last
    <2>12. /\ queue' \in Seq(Queued) /\ Len(queue') = n /\ DOMAIN queue' = 1..n
           /\ \A j \in 1..n : j # n => queue'[j] = queue[j]
           /\ queue'[n] = last
        BY <1>2, <2>2, <2>10, <2>11
    <2>13. OwnerOf(index) = n
        <3>1. Cardinality(ActionsUpTo(index)) = n /\ ActionsUpTo(index) # {}
            <4>1. n # 0
                BY <1>2, <1>8
            <4> QED BY <1>2, <1>4, <4>1, CountFacts
        <3> QED BY <3>1 DEF OwnerOf
    <2>14. OwnMetadata'
        <3>1. ASSUME NEW j \in 1..n, NEW x \in DOMAIN args
              PROVE  x \in Range(queue'[j].meta) <=> Claims(x, j, index + 1)
            <4>1. CASE j = n
                BY <1>2, <1>3, <1>5, <2>2, <2>9, <2>10, <2>12, <2>13, <4>1 DEF OwnMetadata
            <4>2. CASE j # n
                BY <1>2, <1>3, <1>5, <2>12, <2>13, <4>2 DEF OwnMetadata
            <4> QED BY <4>1, <4>2
        <3> QED BY <2>1, <2>12, <3>1, SameArguments DEF OwnMetadata
    <2>15. Len(queue') = Cardinality(ActionsUpTo(index))
           /\ \A j \in DOMAIN queue' : queue'[j].kind \in FileActions => FileActionIn(index)
        BY <1>2, <1>4, <2>3, <2>12
    <2> QED BY <1>1, <1>2, <1>3, <2>1, <2>5, <2>6, <2>12, <2>14, <2>15, SameArguments
            DEF ParseInvariant
<1> QED BY <1>6, <1>7, <1>8

(* Every step of the program keeps the account.                            *)
LEMMA ParseInvariantStep ==
    ASSUME ParseInvariant, [Next]_vars
    PROVE  ParseInvariant'
<1>1. ASSUME UNCHANGED writeVars PROVE ParseInvariant'
    BY <1>1, ParsedStays DEF writeVars
<1>2. CASE DispatchRead \/ DispatchBare \/ Reading \/ Finished \/ UNCHANGED vars
    <2>1. UNCHANGED writeVars
        BY <1>2 DEF DispatchRead, DispatchBare, Reading, Finished, vars
    <2> QED BY <1>1, <2>1
<1>3. CASE DispatchWrite
    BY <1>3, ParsingStarts DEF DispatchWrite
<1>4. ASSUME NEW stage, Move(stage), stage # "idle",
             stage \in {"parse", "error"} \/ write \notin {"idle", "parse", "error"}
                 \/ index = Len(args) + 1
      PROVE  ParseInvariant'
    BY <1>4, ParsedStays DEF Move
<1>5. CASE FinishParsing
    <2>1. index = Len(args) + 1
        <3>1. index \in 1..(Len(args) + 1) /\ Len(args) \in Nat /\ index > Len(args)
            BY <1>5 DEF FinishParsing, ParseInvariant, Listed
        <3> QED BY <3>1
    <2> QED BY <1>4, <1>5, <2>1 DEF FinishParsing
<1>6. CASE ConversionFails
    BY <1>4, <1>6 DEF ConversionFails
<1>7. ASSUME write \notin {"idle", "parse", "error"}, NEW writer, NEW told, Ran(writer, told)
      PROVE  ParseInvariant'
    BY <1>4, <1>7 DEF Ran
<1>8. ASSUME Refuse PROVE ParseInvariant'
    BY <1>4, <1>8 DEF Refuse
<1>9. CASE OpenInput
    BY <1>4, <1>9 DEF OpenInput
<1>10. CASE Convert
    <2>1. write = "route" /\ Move("convert")
        BY <1>10 DEF Convert
    <2> QED BY <1>4, <2>1
<1>16. CASE RefuseConversion
    <2>1. write = "route" /\ (Refuse \/ Move("error"))
        BY <1>16 DEF RefuseConversion
    <2> QED BY <1>4, <1>8, <2>1
<1>11. CASE ConversionRan
    BY <1>7, <1>11 DEF ConversionRan
<1>12. CASE EditStep
    <2>1. /\ write \in {"route", "append", "overlay"}
          /\ Refuse \/ (\E writer, told : Ran(writer, told)) \/ Move("append") \/ Move("overlay")
        <3>1. CASE WriteExt4
            BY <3>1 DEF WriteExt4, Editing
        <3>2. CASE RefuseErofs
            BY <3>2 DEF RefuseErofs, Editing
        <3>3. CASE PatchMetadata
            BY <3>3 DEF PatchMetadata, EditingErofs, Editing, Rebuild
        <3>4. CASE RouteFiles
            BY <3>4 DEF RouteFiles, EditingErofs, Editing, Rebuild
        <3>5. CASE AppendFile \/ OverlayFiles
            BY <3>5 DEF AppendFile, OverlayFiles, Rebuild
        <3> QED BY <1>12, <3>1, <3>2, <3>3, <3>4, <3>5 DEF EditStep
    <2> QED BY <1>4, <1>7, <1>8, <2>1
<1>13. CASE ParseStep
    BY <1>5, <1>13, OptionKeeps, ActionKeeps, MetadataKeeps DEF ParseStep
<1>14. CASE Writing
    BY <1>1, <1>9, <1>10, <1>11, <1>12, <1>13, <1>14, <1>16 DEF Writing, WriteStep
<1>15. CASE Fails
    BY <1>6, <1>15 DEF Fails
<1> QED BY <1>2, <1>3, <1>14, <1>15 DEF Next, Proceed

(* A metadata option belongs to the action before it, else to the next     *)
(* file action, and a later one of its kind replaces it: of every list of  *)
(* arguments that is not refused, however long it is.                      *)
THEOREM MetadataIsNeverMisplaced == Spec => []MetadataReachesItsAction
<1>1. Init => ParseInvariant
    <2> SUFFICES ASSUME Init PROVE ParseInvariant
        OBVIOUS
    <2>1. args = <<>> /\ write = "idle" /\ index = 1 /\ queue = <<>> /\ held = <<>>
        BY DEF Init, WriteInit
    <2>2. Listed /\ Len(args) = 0 /\ DOMAIN args = {}
        BY <2>1 DEF Listed
    <2>3. held \in MetaMaps
        <3>1. held \in [{} -> DOMAIN args] /\ DOMAIN held = {}
            BY <2>1
        <3> QED BY <3>1 DEF MetaMaps
    <2>4. Len(queue) = Cardinality(ActionsUpTo(index - 1)) /\ DOMAIN queue = {}
          /\ queue \in Seq(Queued)
        <3>1. ActionsUpTo(index - 1) = {}
            BY <2>1 DEF ActionsUpTo
        <3> QED BY <2>1, <3>1, FS_EmptySet
    <2>5. OwnMetadata /\ HeldBack
        BY <2>1, <2>2 DEF OwnMetadata, HeldBack
    <2> QED BY <2>1, <2>2, <2>3, <2>4, <2>5 DEF ParseInvariant
<1>2. ParseInvariant /\ [Next]_vars => ParseInvariant'
    BY ParseInvariantStep
<1>3. ParseInvariant => MetadataReachesItsAction
    <2> SUFFICES ASSUME ParseInvariant, write = "done",
                        NEW x \in DOMAIN args, args[x].opt = "meta", NEW j \in DOMAIN queue
                 PROVE  x \in Range(queue[j].meta) <=>
                            /\ OwnerOf(x) = j
                            /\ ~\E y \in (x + 1)..Len(args) :
                                   args[y].opt = "meta" /\ args[y].value = args[x].value
                                   /\ OwnerOf(y) = j
        BY DEF MetadataReachesItsAction
    <2>1. /\ index = Len(args) + 1 /\ OwnMetadata
          /\ DOMAIN args = 1..Len(args) /\ Len(args) \in Nat
        BY DEF ParseInvariant, Listed
    <2>2. x < index /\ index - 1 = Len(args)
        BY <2>1
    <2>3. x \in Range(queue[j].meta) <=> Claims(x, j, index)
        BY <2>1 DEF OwnMetadata
    <2> QED BY <2>2, <2>3 DEF Claims
<1> QED BY <1>1, <1>2, <1>3, PTL DEF Spec

-----------------------------------------------------------------------------
(* The glob matcher.  A place in the pattern fits a place in the name when *)
(* the rest of the pattern cuts up the rest of the name.                   *)
Piece(name, pattern, cut, q) ==
    IF pattern[q] = "*" THEN cut[q - 1] <= cut[q]
    ELSE cut[q] = cut[q - 1] + 1 /\ pattern[q] \in {"?", name[cut[q]]}

Fits(name, pattern, n, p) ==
    \E cut \in [0..Len(pattern) -> 0..Len(name)] :
        /\ cut[p - 1] = n - 1 /\ cut[Len(pattern)] = Len(name)
        /\ \A q \in p..Len(pattern) : Piece(name, pattern, cut, q)

LEMMA FitsAtEnd ==
    ASSUME NEW name \in Seq(STRING), NEW pattern \in Seq(STRING), NEW n \in 1..(Len(name) + 1)
    PROVE  Fits(name, pattern, n, Len(pattern) + 1) <=> n = Len(name) + 1
<1> DEFINE N == Len(name)
           P == Len(pattern)
<1>1. N \in Nat /\ P \in Nat
    OBVIOUS
<1>2. ASSUME n = N + 1 PROVE Fits(name, pattern, n, P + 1)
    <2> DEFINE cut == [q \in 0..P |-> N]
    <2>1. cut \in [0..P -> 0..N] /\ cut[(P + 1) - 1] = n - 1 /\ cut[P] = N
        BY <1>1, <1>2
    <2>2. \A q \in (P + 1)..P : Piece(name, pattern, cut, q)
        BY <1>1
    <2> HIDE DEF cut
    <2> QED BY <2>1, <2>2 DEF Fits
<1>3. ASSUME Fits(name, pattern, n, P + 1) PROVE n = N + 1
    BY <1>1, <1>3 DEF Fits
<1> QED BY <1>2, <1>3

(* A star takes any number of characters.                                  *)
LEMMA FitsStar ==
    ASSUME NEW name \in Seq(STRING), NEW pattern \in Seq(STRING), NEW n \in 1..(Len(name) + 1),
           NEW p \in 1..Len(pattern), pattern[p] = "*"
    PROVE  Fits(name, pattern, n, p) <=> \E m \in n..(Len(name) + 1) : Fits(name, pattern, m, p + 1)
<1> DEFINE N == Len(name)
           P == Len(pattern)
<1>1. N \in Nat /\ P \in Nat /\ p - 1 \in 0..P /\ p \in 0..P /\ n - 1 \in 0..N /\ (p + 1) - 1 = p
    OBVIOUS
<1>2. ASSUME Fits(name, pattern, n, p) PROVE \E m \in n..(N + 1) : Fits(name, pattern, m, p + 1)
    <2>1. PICK cut \in [0..P -> 0..N] :
              /\ cut[p - 1] = n - 1 /\ cut[P] = N
              /\ \A q \in p..P : Piece(name, pattern, cut, q)
        BY <1>2 DEF Fits
    <2>2. Piece(name, pattern, cut, p)
        BY <2>1, <1>1
    <2>3. cut[p - 1] <= cut[p] /\ cut[p] \in 0..N
        BY <2>2, <1>1 DEF Piece
    <2> DEFINE m == cut[p] + 1
    <2>4. m \in n..(N + 1) /\ m - 1 = cut[p]
        BY <1>1, <2>1, <2>3
    <2>5. \A q \in (p + 1)..P : Piece(name, pattern, cut, q)
        BY <2>1, <1>1
    <2> HIDE DEF m
    <2>6. Fits(name, pattern, m, p + 1)
        BY <1>1, <2>1, <2>4, <2>5 DEF Fits
    <2> QED BY <2>4, <2>6
<1>3. ASSUME NEW m \in n..(N + 1), Fits(name, pattern, m, p + 1) PROVE Fits(name, pattern, n, p)
    <2>1. PICK cut \in [0..P -> 0..N] :
              /\ cut[p] = m - 1 /\ cut[P] = N
              /\ \A q \in (p + 1)..P : Piece(name, pattern, cut, q)
        BY <1>1, <1>3 DEF Fits
    <2> DEFINE with == [cut EXCEPT ![p - 1] = n - 1]
    <2>2. with \in [0..P -> 0..N] /\ with[p - 1] = n - 1 /\ \A q \in p..P : with[q] = cut[q]
        BY <1>1
    <2> HIDE DEF with
    <2>3. ASSUME NEW q \in (p + 1)..P PROVE Piece(name, pattern, with, q)
        <3>1. with[q] = cut[q] /\ with[q - 1] = cut[q - 1]
            BY <2>2, <1>1
        <3>2. Piece(name, pattern, cut, q)
            BY <2>1
        <3> QED BY <3>1, <3>2 DEF Piece
    <2>4. Piece(name, pattern, with, p)
        <3>1. with[p] = m - 1 /\ with[p - 1] = n - 1
            BY <1>1, <2>1, <2>2
        <3> QED BY <3>1, <1>1 DEF Piece
    <2>5. \A q \in p..P : Piece(name, pattern, with, q)
        <3> TAKE q \in p..P
        <3>1. q = p \/ q \in (p + 1)..P
            BY <1>1
        <3> QED BY <2>3, <2>4, <3>1
    <2>6. with[P] = N
        BY <1>1, <2>1, <2>2
    <2> QED BY <2>2, <2>5, <2>6 DEF Fits
<1> QED BY <1>2, <1>3

(* Anything else takes one.                                                *)
LEMMA FitsOne ==
    ASSUME NEW name \in Seq(STRING), NEW pattern \in Seq(STRING), NEW n \in 1..(Len(name) + 1),
           NEW p \in 1..Len(pattern), pattern[p] # "*"
    PROVE  Fits(name, pattern, n, p)
               <=> n <= Len(name) /\ pattern[p] \in {"?", name[n]} /\ Fits(name, pattern, n + 1, p + 1)
<1> DEFINE N == Len(name)
           P == Len(pattern)
<1>1. N \in Nat /\ P \in Nat /\ p - 1 \in 0..P /\ p \in 0..P /\ n - 1 \in 0..N /\ (p + 1) - 1 = p
      /\ (n + 1) - 1 = n /\ (n - 1) + 1 = n
    OBVIOUS
<1>2. ASSUME Fits(name, pattern, n, p)
      PROVE  n <= N /\ pattern[p] \in {"?", name[n]} /\ Fits(name, pattern, n + 1, p + 1)
    <2>1. PICK cut \in [0..P -> 0..N] :
              /\ cut[p - 1] = n - 1 /\ cut[P] = N
              /\ \A q \in p..P : Piece(name, pattern, cut, q)
        BY <1>2 DEF Fits
    <2>2. Piece(name, pattern, cut, p)
        BY <2>1, <1>1
    <2>3. cut[p] = n /\ pattern[p] \in {"?", name[cut[p]]}
        BY <2>1, <2>2, <1>1 DEF Piece
    <2>4. cut[p] \in 0..N
        BY <1>1
    <2>5. \A q \in (p + 1)..P : Piece(name, pattern, cut, q)
        BY <2>1, <1>1
    <2>6. Fits(name, pattern, n + 1, p + 1)
        BY <1>1, <2>1, <2>3, <2>5 DEF Fits
    <2> QED BY <2>3, <2>4, <2>6
<1>3. ASSUME n <= N, pattern[p] \in {"?", name[n]}, Fits(name, pattern, n + 1, p + 1)
      PROVE  Fits(name, pattern, n, p)
    <2>1. PICK cut \in [0..P -> 0..N] :
              /\ cut[p] = n /\ cut[P] = N
              /\ \A q \in (p + 1)..P : Piece(name, pattern, cut, q)
        BY <1>1, <1>3 DEF Fits
    <2> DEFINE with == [cut EXCEPT ![p - 1] = n - 1]
    <2>2. with \in [0..P -> 0..N] /\ with[p - 1] = n - 1 /\ \A q \in p..P : with[q] = cut[q]
        BY <1>1
    <2> HIDE DEF with
    <2>3. ASSUME NEW q \in (p + 1)..P PROVE Piece(name, pattern, with, q)
        <3>1. with[q] = cut[q] /\ with[q - 1] = cut[q - 1]
            BY <2>2, <1>1
        <3>2. Piece(name, pattern, cut, q)
            BY <2>1
        <3> QED BY <3>1, <3>2 DEF Piece
    <2>4. Piece(name, pattern, with, p)
        <3>1. with[p] = n /\ with[p - 1] = n - 1
            BY <1>1, <2>1, <2>2
        <3> QED BY <3>1, <1>1, <1>3 DEF Piece
    <2>5. \A q \in p..P : Piece(name, pattern, with, q)
        <3> TAKE q \in p..P
        <3>1. q = p \/ q \in (p + 1)..P
            BY <1>1
        <3> QED BY <2>3, <2>4, <3>1
    <2>6. with[P] = N
        BY <1>1, <2>1, <2>2
    <2> QED BY <2>2, <2>5, <2>6 DEF Fits
<1> QED BY <1>2, <1>3

(* The end of the name is fitted by stars alone.                           *)
LEMMA StarsFitAtEnd ==
    ASSUME NEW name \in Seq(STRING), NEW pattern \in Seq(STRING), NEW p \in 1..(Len(pattern) + 1)
    PROVE  Fits(name, pattern, Len(name) + 1, p) <=> \A q \in p..Len(pattern) : pattern[q] = "*"
<1> DEFINE N == Len(name)
           P == Len(pattern)
           Right(k) == Fits(name, pattern, N + 1, P + 1 - k) <=> \A q \in (P + 1 - k)..P : pattern[q] = "*"
           Wrong == {k \in 0..P : ~Right(k)}
<1>1. N \in Nat /\ P \in Nat /\ N + 1 \in 1..(N + 1) /\ P + 1 - 0 = P + 1
    OBVIOUS
<1>2. Right(0)
    BY <1>1, FitsAtEnd
<1>3. ASSUME NEW k \in 1..P, Right(k - 1) PROVE Right(k)
    <2> DEFINE r == P + 1 - k
    <2>1. r \in 1..P /\ r + 1 = P + 1 - (k - 1) /\ r..P = {r} \cup (r + 1)..P
        BY <1>1
    <2> HIDE DEF r, N, P
    <2>2. CASE pattern[r] = "*"
        <3>1. Fits(name, pattern, N + 1, r) <=> \E m \in (N + 1)..(N + 1) : Fits(name, pattern, m, r + 1)
            BY <1>1, <2>1, <2>2, FitsStar DEF N, P
        <3>2. (N + 1)..(N + 1) = {N + 1}
            BY <1>1
        <3> QED BY <1>3, <2>1, <2>2, <3>1, <3>2 DEF r
    <2>3. CASE pattern[r] # "*"
        <3>1. ~Fits(name, pattern, N + 1, r)
            BY <1>1, <2>1, <2>3, FitsOne DEF N, P
        <3> QED BY <2>1, <2>3, <3>1 DEF r
    <2> QED BY <2>2, <2>3
<1> HIDE DEF Right
<1>4. Wrong = {}
    <2> SUFFICES ASSUME Wrong # {} PROVE FALSE
        OBVIOUS
    <2>1. Wrong \subseteq Nat
        OBVIOUS
    <2> HIDE DEF Wrong
    <2>2. PICK k \in Wrong : \A j \in Wrong : k <= j
        BY <2>1, LeastElement
    <2>3. k \in 0..P /\ ~Right(k)
        BY <2>2 DEF Wrong
    <2>4. k # 0
        BY <1>2, <2>3
    <2>5. k \in 1..P /\ k - 1 \in 0..P /\ k - 1 \notin Wrong
        BY <1>1, <2>2, <2>3, <2>4
    <2> QED BY <1>3, <2>3, <2>5 DEF Wrong
<1>5. P + 1 - p \in 0..P /\ P + 1 - (P + 1 - p) = p
    BY <1>1
<1>6. Right(P + 1 - p)
    BY <1>4, <1>5
<1> QED BY <1>5, <1>6 DEF Right

(* What fits behind a star still fits after the characters that follow it. *)
LEMMA FitsPast ==
    ASSUME NEW name \in Seq(STRING), NEW pattern \in Seq(STRING), NEW m \in 1..(Len(name) + 1),
           NEW star \in 1..Len(pattern), NEW p \in (star + 1)..(Len(pattern) + 1),
           \A i \in (star + 1)..(p - 1) : pattern[i] # "*", Fits(name, pattern, m, star + 1)
    PROVE  /\ m + (p - star - 1) \in 1..(Len(name) + 1)
           /\ Fits(name, pattern, m + (p - star - 1), p)
<1> DEFINE N == Len(name)
           P == Len(pattern)
           Good(k) == m + k \in 1..(N + 1) /\ Fits(name, pattern, m + k, star + 1 + k)
           last == p - star - 1
           Bad == {k \in 0..last : ~Good(k)}
<1>1. N \in Nat /\ P \in Nat /\ last \in 0..P /\ m \in Nat /\ star + 1 + last = p /\ last \in Nat
    OBVIOUS
<1>2. Good(0)
    <2>1. m + 0 = m /\ star + 1 + 0 = star + 1
        OBVIOUS
    <2> QED BY <2>1
<1>3. ASSUME NEW k \in 1..last, Good(k - 1) PROVE Good(k)
    <2> DEFINE r == star + k
               j == m + (k - 1)
    <2>1. r \in 1..P /\ r \in (star + 1)..(p - 1) /\ star + 1 + (k - 1) = r /\ star + 1 + k = r + 1 /\ j + 1 = m + k
        BY <1>1
    <2>2. j \in 1..(N + 1) /\ Fits(name, pattern, j, r) /\ pattern[r] # "*"
        BY <1>3, <2>1
    <2> HIDE DEF r, j, N, P
    <2>3. j <= N /\ Fits(name, pattern, j + 1, r + 1)
        BY <2>1, <2>2, FitsOne DEF N, P
    <2>4. j + 1 \in 1..(N + 1)
        BY <1>1, <2>2, <2>3
    <2> QED BY <2>1, <2>3, <2>4
<1> HIDE DEF Good
<1>4. Bad = {}
    <2> SUFFICES ASSUME Bad # {} PROVE FALSE
        OBVIOUS
    <2>1. Bad \subseteq Nat
        OBVIOUS
    <2> HIDE DEF Bad, last
    <2>2. PICK k \in Bad : \A j \in Bad : k <= j
        BY <2>1, LeastElement
    <2>3. k \in 0..last /\ ~Good(k)
        BY <2>2 DEF Bad
    <2>4. k # 0
        BY <1>2, <2>3
    <2>5. k \in 1..last /\ k - 1 \in 0..last /\ k - 1 \notin Bad
        BY <1>1, <2>2, <2>3, <2>4
    <2> QED BY <1>3, <2>3, <2>5 DEF Bad
<1>5. Good(last)
    BY <1>1, <1>4
<1> QED BY <1>1, <1>5 DEF Good

-----------------------------------------------------------------------------
(* What a scan has come to: behind the last star no other was passed, and  *)
(* as many characters of the name as of the pattern.                       *)
Scanned(pattern, at) ==
    at.star # 0 =>
        /\ at.star < at.pattern_index
        /\ at.name_index - at.star_match = at.pattern_index - at.star - 1
        /\ \A i \in (at.star + 1)..(at.pattern_index - 1) : pattern[i] # "*"

(* A scan that stands here may still succeed: here, or with the star       *)
(* reaching further.                                                       *)
Hopeful(name, pattern, at) ==
    \/ Fits(name, pattern, at.name_index, at.pattern_index)
    \/ /\ at.star # 0
       /\ \E m \in (at.star_match + 1)..(Len(name) + 1) : Fits(name, pattern, m, at.star + 1)

LEMMA APlace ==
    ASSUME NEW name \in Seq(STRING), NEW pattern \in Seq(STRING), NEW at \in Places(name, pattern)
    PROVE  \E n \in 1..(Len(name) + 1), p \in 1..(Len(pattern) + 1),
              s \in 0..Len(pattern), k \in 0..(Len(name) + 1) : at = Place(n, p, s, k) /\ k <= n
BY DEF Places, Place

LEMMA PlaceFields ==
    ASSUME NEW n, NEW p, NEW s, NEW k
    PROVE  LET at == Place(n, p, s, k)
           IN  at.name_index = n /\ at.pattern_index = p /\ at.star = s /\ at.star_match = k
BY DEF Place

LEMMA IsPlace ==
    ASSUME NEW name \in Seq(STRING), NEW pattern \in Seq(STRING),
           NEW n \in 1..(Len(name) + 1), NEW p \in 1..(Len(pattern) + 1),
           NEW s \in 0..Len(pattern), NEW k \in 0..(Len(name) + 1), k <= n
    PROVE  Place(n, p, s, k) \in Places(name, pattern)
BY DEF Places, Place

(* One round, at a place taken apart.                                      *)
LEMMA AdvanceIs ==
    ASSUME NEW name, NEW pattern, NEW n, NEW p, NEW s, NEW k
    PROVE  Advance(name, pattern, Place(n, p, s, k)) =
               IF n > Len(name) THEN Place(n, p, s, k)
               ELSE IF p <= Len(pattern) /\ (pattern[p] = "?" \/ pattern[p] = name[n])
               THEN Place(n + 1, p + 1, s, k)
               ELSE IF p <= Len(pattern) /\ pattern[p] = "*" THEN Place(n, p + 1, p, n)
               ELSE IF s # 0 THEN Place(k + 1, s + 1, s, k + 1)
               ELSE Place(n, p, s, k)
<1> DEFINE at == Place(n, p, s, k)
<1>1. at.name_index = n /\ at.pattern_index = p /\ at.star = s /\ at.star_match = k
    BY DEF Place
<1>2. at = Place(n, p, s, k)
    OBVIOUS
<1> HIDE DEF at
<1> QED BY <1>1, <1>2, Zenon DEF Advance

Starless(name) == \A i \in 1..Len(name) : name[i] # "*"

(* A round keeps to places, what the scan has come to, and its hope.       *)
LEMMA RoundKeeps ==
    ASSUME NEW name \in Seq(STRING), NEW pattern \in Seq(STRING), Starless(name),
           NEW at \in Places(name, pattern), Scanned(pattern, at)
    PROVE  LET to == Advance(name, pattern, at)
           IN  /\ Scanned(pattern, to)
               /\ Hopeful(name, pattern, to) <=> Hopeful(name, pattern, at)
<1> DEFINE N == Len(name)
           P == Len(pattern)
<1>0. N \in Nat /\ P \in Nat
    OBVIOUS
<1>1. PICK n \in 1..(N + 1), p \in 1..(P + 1), s \in 0..P, k \in 0..(N + 1) : at = Place(n, p, s, k) /\ k <= n
    BY APlace
<1> DEFINE next == Advance(name, pattern, at)
           hope(i, j, t, r) == \/ Fits(name, pattern, i, j)
                               \/ t # 0 /\ \E m \in (r + 1)..(N + 1) : Fits(name, pattern, m, t + 1)
           fine(i, j, t, r) == t # 0 => /\ t < j /\ i - r = j - t - 1
                                        /\ \A x \in (t + 1)..(j - 1) : pattern[x] # "*"
<1>2. \A i, j, t, r : /\ Hopeful(name, pattern, Place(i, j, t, r)) <=> hope(i, j, t, r)
                      /\ Scanned(pattern, Place(i, j, t, r)) <=> fine(i, j, t, r)
    BY DEF Hopeful, Scanned, Place
<1>3. next = IF n > N THEN Place(n, p, s, k)
             ELSE IF p <= P /\ (pattern[p] = "?" \/ pattern[p] = name[n]) THEN Place(n + 1, p + 1, s, k)
             ELSE IF p <= P /\ pattern[p] = "*" THEN Place(n, p + 1, p, n)
             ELSE IF s # 0 THEN Place(k + 1, s + 1, s, k + 1)
             ELSE Place(n, p, s, k)
    <2>1. next = Advance(name, pattern, Place(n, p, s, k))
        BY <1>1
    <2> HIDE DEF next
    <2> QED BY ONLY <2>1, AdvanceIs
<1>4. fine(n, p, s, k)
    <2>1. Scanned(pattern, Place(n, p, s, k))
        BY <1>1
    <2> QED BY ONLY <2>1 DEF Scanned, Place
<1> HIDE DEF next, N, P
<1> SUFFICES ASSUME NEW i, NEW j, NEW t, NEW r, next = Place(i, j, t, r)
             PROVE  Scanned(pattern, next) /\ (Hopeful(name, pattern, next) <=> hope(n, p, s, k))
    <2>1. \E i, j, t, r : next = Place(i, j, t, r)
        BY <1>3
    <2>2. Hopeful(name, pattern, at) <=> hope(n, p, s, k)
        BY <1>1, <1>2
    <2> QED BY <2>1, <2>2 DEF next
<1>5. CASE next = at
    <2>1. Hopeful(name, pattern, at) <=> hope(n, p, s, k)
        BY <1>1, <1>2
    <2> QED BY ONLY <1>5, <2>1, Scanned(pattern, at)
<1>6. CASE n <= N /\ p <= P /\ (pattern[p] = "?" \/ pattern[p] = name[n])
    <2>1. next = Place(n + 1, p + 1, s, k)
        BY <1>0, <1>3, <1>6
    <2>2. pattern[p] # "*" /\ pattern[p] \in {"?", name[n]} /\ p \in 1..P
        BY <1>0, <1>6 DEF Starless, N
    <2>3. Fits(name, pattern, n, p) <=> Fits(name, pattern, n + 1, p + 1)
        BY <2>2, <1>6, FitsOne DEF N, P
    <2>4. fine(n + 1, p + 1, s, k)
        <3> SUFFICES ASSUME s # 0 PROVE /\ s < p + 1 /\ n + 1 - k = p + 1 - s - 1
                                        /\ \A x \in (s + 1)..(p + 1 - 1) : pattern[x] # "*"
            OBVIOUS
        <3>1. s < p /\ n - k = p - s - 1 /\ \A x \in (s + 1)..(p - 1) : pattern[x] # "*"
            BY <1>4
        <3>2. \A x \in (s + 1)..(p + 1 - 1) : x = p \/ x \in (s + 1)..(p - 1)
            BY <1>0
        <3> QED BY <1>0, <2>2, <3>1, <3>2
    <2>5. hope(n + 1, p + 1, s, k) <=> hope(n, p, s, k)
        BY <2>3
    <2>6. /\ Hopeful(name, pattern, Place(n + 1, p + 1, s, k)) <=> hope(n + 1, p + 1, s, k)
          /\ Scanned(pattern, Place(n + 1, p + 1, s, k)) <=> fine(n + 1, p + 1, s, k)
        BY ONLY DEF Hopeful, Scanned, Place, N, P
    <2> HIDE DEF hope, fine
    <2> QED BY ONLY <2>1, <2>4, <2>5, <2>6
<1>7. CASE n <= N /\ p <= P /\ ~(pattern[p] = "?" \/ pattern[p] = name[n]) /\ pattern[p] = "*"
    <2>1. next = Place(n, p + 1, p, n)
        BY <1>0, <1>3, <1>7
    <2>2. p \in 1..P /\ p # 0
        BY <1>0, <1>7
    <2>3. Fits(name, pattern, n, p) <=> \E m \in n..(N + 1) : Fits(name, pattern, m, p + 1)
        BY <1>7, <2>2, FitsStar DEF N, P
    <2>4. fine(n, p + 1, p, n)
        BY <1>0
    <2>5. \A m : m \in n..(N + 1) <=> m = n \/ m \in (n + 1)..(N + 1)
        BY <1>0
    <2>6. hope(n, p + 1, p, n) <=> Fits(name, pattern, n, p)
        BY <2>2, <2>3, <2>5
    <2>7. ASSUME s # 0, NEW m \in (k + 1)..(N + 1), Fits(name, pattern, m, s + 1)
          PROVE  Fits(name, pattern, n, p)
        <3>1. s \in 1..P /\ p \in (s + 1)..(P + 1) /\ m \in 1..(N + 1) /\ n - k = p - s - 1
              /\ \A x \in (s + 1)..(p - 1) : pattern[x] # "*"
            BY <1>0, <1>4, <2>7
        <3> DEFINE past == m + (p - s - 1)
        <3>2. past \in 1..(N + 1) /\ Fits(name, pattern, past, p)
            BY <3>1, <2>7, FitsPast DEF N, P
        <3>3. past \in n..(N + 1)
            BY <1>0, <3>1, <3>2
        <3> HIDE DEF past
        <3>4. PICK l \in past..(N + 1) : Fits(name, pattern, l, p + 1)
            BY <1>7, <2>2, <3>2, FitsStar DEF N, P
        <3>5. l \in n..(N + 1)
            BY <1>0, <3>3
        <3> QED BY <2>3, <3>4, <3>5
    <2>8. hope(n, p, s, k) <=> Fits(name, pattern, n, p)
        BY <2>7
    <2> QED BY <1>2, <2>1, <2>4, <2>6, <2>8
<1>8. CASE n <= N /\ ~(p <= P /\ (pattern[p] = "?" \/ pattern[p] = name[n])) /\ ~(p <= P /\ pattern[p] = "*") /\ s # 0
    <2>1. next = Place(k + 1, s + 1, s, k + 1)
        BY <1>0, <1>3, <1>8
    <2>2. ~Fits(name, pattern, n, p)
        <3>1. CASE p <= P
            <4>1. p \in 1..P /\ pattern[p] # "*" /\ pattern[p] \notin {"?", name[n]}
                BY <1>0, <1>8, <3>1
            <4> QED BY <4>1, FitsOne DEF N, P
        <3>2. CASE ~(p <= P)
            <4>1. p = P + 1 /\ n # N + 1
                BY <1>0, <1>8, <3>2
            <4> QED BY <4>1, FitsAtEnd DEF N, P
        <3> QED BY <3>1, <3>2
    <2>3. fine(k + 1, s + 1, s, k + 1)
        BY <1>0
    <2>4. k + 1 \in (k + 1)..(N + 1) /\ \A m : m \in (k + 1)..(N + 1) <=> m = k + 1 \/ m \in (k + 1 + 1)..(N + 1)
        BY <1>0, <1>1, <1>8
    <2>5. hope(k + 1, s + 1, s, k + 1) <=> hope(n, p, s, k)
        BY <1>8, <2>2, <2>4
    <2> QED BY <1>2, <2>1, <2>3, <2>5
<1> HIDE DEF hope, fine
<1> DEFINE fits == p <= P /\ (pattern[p] = "?" \/ pattern[p] = name[n])
           star == p <= P /\ pattern[p] = "*"
<1>9. ~(n <= N) \/ (~fits /\ ~star /\ s = 0) => next = at
    BY <1>0, <1>1, <1>3
<1>10. next = at \/ (n <= N /\ fits) \/ (n <= N /\ ~fits /\ star) \/ (n <= N /\ ~fits /\ ~star /\ s # 0)
    BY ONLY <1>9
<1> QED BY ONLY <1>5, <1>6, <1>7, <1>8, <1>10, Zenon

(* Where the scan stops, it has the answer.                                *)
LEMMA StoppedIsDecided ==
    ASSUME NEW name \in Seq(STRING), NEW pattern \in Seq(STRING), Starless(name),
           NEW at \in Places(name, pattern), Scanned(pattern, at), Advance(name, pattern, at) = at
    PROVE  Hopeful(name, pattern, at) <=>
               /\ at.name_index > Len(name)
               /\ \A q \in at.pattern_index..Len(pattern) : pattern[q] = "*"
<1> DEFINE N == Len(name)
           P == Len(pattern)
<1>0. N \in Nat /\ P \in Nat
    OBVIOUS
<1>1. PICK n \in 1..(N + 1), p \in 1..(P + 1), s \in 0..P, k \in 0..(N + 1) : at = Place(n, p, s, k) /\ k <= n
    BY APlace
<1>2. /\ Hopeful(name, pattern, at) <=> \/ Fits(name, pattern, n, p)
                                        \/ s # 0 /\ \E m \in (k + 1)..(N + 1) : Fits(name, pattern, m, s + 1)
      /\ s # 0 => s < p /\ n - k = p - s - 1 /\ \A x \in (s + 1)..(p - 1) : pattern[x] # "*"
      /\ at.name_index = n /\ at.pattern_index = p
    BY <1>1 DEF Hopeful, Scanned, Place
<1>3. Place(n, p, s, k) = IF n > N THEN Place(n, p, s, k)
             ELSE IF p <= P /\ (pattern[p] = "?" \/ pattern[p] = name[n]) THEN Place(n + 1, p + 1, s, k)
             ELSE IF p <= P /\ pattern[p] = "*" THEN Place(n, p + 1, p, n)
             ELSE IF s # 0 THEN Place(k + 1, s + 1, s, k + 1)
             ELSE Place(n, p, s, k)
    BY <1>1, AdvanceIs
<1>4. \A i, j, t, r : Place(i, j, t, r) = Place(n, p, s, k) => i = n /\ j = p /\ t = s /\ r = k
    BY PlaceFields
<1> HIDE DEF N, P
<1>5. CASE n > N
    <2>1. n = N + 1
        BY <1>0, <1>5
    <2>2. Fits(name, pattern, n, p) <=> \A q \in p..P : pattern[q] = "*"
        BY <2>1, StarsFitAtEnd DEF N, P
    <2>3. ASSUME s # 0, NEW m \in (k + 1)..(N + 1), Fits(name, pattern, m, s + 1)
          PROVE  FALSE
        <3>1. s \in 1..P /\ p \in (s + 1)..(P + 1) /\ m \in 1..(N + 1) /\ n - k = p - s - 1
              /\ \A x \in (s + 1)..(p - 1) : pattern[x] # "*"
            BY <1>0, <1>2, <2>3
        <3>2. m + (p - s - 1) \in 1..(N + 1)
            BY <3>1, <2>3, FitsPast DEF N, P
        <3> QED BY <1>0, <2>1, <3>1, <3>2
    <2> QED BY <1>2, <1>5, <2>2, <2>3 DEF N, P
<1>6. CASE n <= N
    <2>1. ~(p <= P /\ (pattern[p] = "?" \/ pattern[p] = name[n])) /\ ~(p <= P /\ pattern[p] = "*")
        BY <1>0, <1>3, <1>4, <1>6
    <2>2. s = 0
        BY <1>0, <1>2, <1>3, <1>4, <1>6, <2>1
    <2>3. ~Fits(name, pattern, n, p)
        <3>1. CASE p <= P
            <4>1. p \in 1..P /\ pattern[p] # "*" /\ pattern[p] \notin {"?", name[n]}
                BY <1>0, <2>1, <3>1
            <4> QED BY <4>1, FitsOne DEF N, P
        <3>2. CASE ~(p <= P)
            <4>1. p = P + 1 /\ n # N + 1
                BY <1>0, <1>6, <3>2
            <4> QED BY <4>1, FitsAtEnd DEF N, P
        <3> QED BY <3>1, <3>2
    <2>4. ~(n > N)
        BY <1>0, <1>6
    <2> QED BY <1>2, <2>2, <2>3, <2>4 DEF N, P
<1> QED BY <1>0, <1>5, <1>6

(* Every round but the last comes nearer to the end.                       *)
LEMMA RoundsEnd ==
    ASSUME NEW name \in Seq(STRING), NEW pattern \in Seq(STRING)
    PROVE  LET places == Places(name, pattern)
               width == Len(pattern) + 2
               bound == (Len(name) + 2) * width
               rank(at) == bound - (at.star_match * width + at.pattern_index)
           IN  /\ bound \in Nat
               /\ \A at \in places :
                     /\ rank(at) \in 0..bound
                     /\ Advance(name, pattern, at) \in places
                     /\ \/ Advance(name, pattern, at) = at
                        \/ rank(Advance(name, pattern, at)) < rank(at)
<1> DEFINE N == Len(name)
           P == Len(pattern)
           width == P + 2
           bound == (N + 2) * width
           rank(at) == bound - (at.star_match * width + at.pattern_index)
<1>0. N \in Nat /\ P \in Nat /\ width \in Nat
    OBVIOUS
<1>1. /\ bound \in Nat
      /\ \A k \in 0..(N + 1) : k * width \in Nat /\ k * width + width <= bound
      /\ \A k, n \in 0..(N + 1) : k <= n => k * width <= n * width
      /\ \A k \in 0..N : (k + 1) * width = k * width + width
    <2>1. ASSUME NEW a \in Nat PROVE a * width \in Nat /\ (a + 1) * width = a * width + width
        BY <1>0
    <2>2. ASSUME NEW a \in Nat, NEW b \in Nat, a <= b PROVE a * width <= b * width
        BY <1>0, <2>2, ProductsGrow
    <2>3. (N + 1) + 1 = N + 2 /\ \A k \in 0..(N + 1) : k \in Nat /\ k + 1 \in Nat /\ k + 1 <= N + 2
        BY <1>0
    <2> HIDE DEF width, N
    <2> QED BY <1>0, <2>1, <2>2, <2>3
<1> SUFFICES ASSUME NEW at \in Places(name, pattern)
             PROVE  /\ rank(at) \in 0..bound
                    /\ Advance(name, pattern, at) \in Places(name, pattern)
                    /\ \/ Advance(name, pattern, at) = at
                       \/ rank(Advance(name, pattern, at)) < rank(at)
    BY <1>1
<1>2. PICK n \in 1..(N + 1), p \in 1..(P + 1), s \in 0..P, k \in 0..(N + 1) : at = Place(n, p, s, k) /\ k <= n
    BY APlace
<1> DEFINE next == Advance(name, pattern, at)
<1>3. next = IF n > N THEN Place(n, p, s, k)
             ELSE IF p <= P /\ (pattern[p] = "?" \/ pattern[p] = name[n]) THEN Place(n + 1, p + 1, s, k)
             ELSE IF p <= P /\ pattern[p] = "*" THEN Place(n, p + 1, p, n)
             ELSE IF s # 0 THEN Place(k + 1, s + 1, s, k + 1)
             ELSE Place(n, p, s, k)
    BY <1>2, AdvanceIs
<1>4. \/ next = at
      \/ n <= N /\ p <= P /\ next = Place(n + 1, p + 1, s, k)
      \/ n <= N /\ p <= P /\ next = Place(n, p + 1, p, n)
      \/ n <= N /\ s # 0 /\ next = Place(k + 1, s + 1, s, k + 1)
    BY <1>0, <1>2, <1>3
<1>5. rank(at) = bound - (k * width + p)
    BY <1>2 DEF Place
<1>6. \A i, j, t, r : rank(Place(i, j, t, r)) = bound - (r * width + j)
    BY DEF Place
<1>7. k * width \in Nat /\ k * width + width <= bound
    BY <1>1
<1>8. rank(at) \in 0..bound
    <2> DEFINE kw == k * width
    <2>1. rank(at) = bound - (kw + p) /\ kw \in Nat /\ kw + width <= bound /\ bound \in Nat /\ p \in 1..(P + 1)
        BY <1>1, <1>5, <1>7
    <2> HIDE DEF kw, rank, bound, P
    <2> QED BY ONLY <1>0, <2>1
<1> HIDE DEF next, bound, rank, N, P
<1>9. CASE next = at
    BY <1>8, <1>9 DEF next
<1>10. CASE n <= N /\ p <= P /\ next = Place(n + 1, p + 1, s, k)
    <2>1. n + 1 \in 1..(N + 1) /\ p + 1 \in 1..(P + 1) /\ k <= n + 1
        BY <1>0, <1>2, <1>10
    <2>2. next \in Places(name, pattern)
        BY <1>10, <2>1, IsPlace DEF N, P
    <2>3. rank(next) = bound - (k * width + (p + 1))
        BY <1>6, <1>10
    <2>4. rank(next) < rank(at)
        BY <1>0, <1>1, <1>5, <1>7, <2>3
    <2> QED BY <1>8, <2>2, <2>4 DEF next
<1>11. CASE n <= N /\ p <= P /\ next = Place(n, p + 1, p, n)
    <2>1. p + 1 \in 1..(P + 1) /\ p \in 0..P /\ n \in 0..(N + 1) /\ n <= n
        BY <1>0, <1>2, <1>11
    <2>2. next \in Places(name, pattern)
        BY <1>11, <2>1, IsPlace DEF N, P
    <2>3. rank(next) = bound - (n * width + (p + 1))
        BY <1>6, <1>11
    <2>4. k * width <= n * width /\ n * width \in Nat
        BY <1>1, <1>2, <2>1
    <2>5. rank(next) < rank(at)
        BY <1>0, <1>1, <1>5, <1>7, <2>3, <2>4
    <2> QED BY <1>8, <2>2, <2>5 DEF next
<1>12. CASE n <= N /\ s # 0 /\ next = Place(k + 1, s + 1, s, k + 1)
    <2>1. k + 1 \in 1..(N + 1) /\ k + 1 \in 0..(N + 1) /\ s + 1 \in 1..(P + 1) /\ k \in 0..N /\ k + 1 <= k + 1
        BY <1>0, <1>2, <1>12
    <2>2. next \in Places(name, pattern)
        BY <1>12, <2>1, IsPlace DEF N, P
    <2>3. rank(next) = bound - ((k + 1) * width + (s + 1))
        BY <1>6, <1>12
    <2>4. (k + 1) * width = k * width + width
        BY <1>1, <2>1
    <2> DEFINE kw == k * width
    <2>5. rank(next) = bound - (kw + width + (s + 1)) /\ rank(at) = bound - (kw + p) /\ kw \in Nat
        BY <1>5, <1>7, <2>3, <2>4
    <2> HIDE DEF kw
    <2>6. rank(next) < rank(at)
        BY <1>0, <1>1, <2>5
    <2> QED BY <1>8, <2>2, <2>6 DEF next
<1> QED BY <1>4, <1>9, <1>10, <1>11, <1>12 DEF next

(* The matcher (matches_pattern, core/util.rs), which goes back to the     *)
(* last star only, decides whether a name without stars fits the glob.     *)
THEOREM MatcherIsGlob ==
    ASSUME NEW name \in Seq(STRING), NEW pattern \in Seq(STRING), Starless(name)
    PROVE  MatchesPattern(name, pattern) <=> Glob(name, pattern)
<1> DEFINE N == Len(name)
           P == Len(pattern)
           S == Places(name, pattern)
           go(at) == Advance(name, pattern, at)
           width == P + 2
           bound == (N + 2) * width
           rank(at) == bound - (at.star_match * width + at.pattern_index)
           IsEnd(f) == f = [at \in S |-> IF go(at) = at THEN at ELSE f[go(at)]]
           end == CHOOSE f : IsEnd(f)
           start == Place(1, 1, 0, 0)
           last == end[start]
           Says(at) == at.name_index > N /\ \A q \in at.pattern_index..P : pattern[q] = "*"
<1>1. MatchesPattern(name, pattern) <=> Says(last)
    BY DEF MatchesPattern
<1>2. /\ bound \in Nat
      /\ \A at \in S : rank(at) \in 0..bound /\ go(at) \in S /\ (go(at) = at \/ rank(go(at)) < rank(at))
    BY RoundsEnd
<1>3. \A at \in S : Scanned(pattern, at) =>
          /\ Scanned(pattern, go(at))
          /\ Hopeful(name, pattern, go(at)) <=> Hopeful(name, pattern, at)
          /\ go(at) = at => (Hopeful(name, pattern, at) <=> Says(at))
    BY RoundKeeps, StoppedIsDecided
<1>4. start \in S /\ Scanned(pattern, start) /\ (Hopeful(name, pattern, start) <=> Glob(name, pattern))
    <2>1. N \in Nat /\ P \in Nat
        OBVIOUS
    <2>2. start \in S
        BY <2>1, IsPlace
    <2>3. start.star = 0 /\ start.name_index = 1 /\ start.pattern_index = 1
        BY DEF Place
    <2>4. Fits(name, pattern, 1, 1) <=> Glob(name, pattern)
        <3>1. 1 - 1 = 0
            OBVIOUS
        <3> QED BY <3>1 DEF Fits, Glob, Piece
    <2> HIDE DEF start
    <2> QED BY <2>2, <2>3, <2>4 DEF Scanned, Hopeful
<1> HIDE DEF S, go, bound, width, rank, start, Says
<1>5. IsEnd(end)
    <2> DEFINE step == [at \in S |-> go(at)]
               distance == [at \in S |-> rank(at)]
    <2>1. step \in [S -> S] /\ distance \in [S -> 0..bound] /\ \A at \in S : step[at] = go(at) /\ distance[at] = rank(at)
        BY <1>2
    <2> HIDE DEF step, distance
    <2>2. \A at \in S : step[at] = at \/ distance[step[at]] < distance[at]
        BY <1>2, <2>1
    <2>a. bound \in Nat
        BY <1>2
    <2>b. step \in [S -> S] /\ distance \in [S -> 0..bound]
        BY <2>1
    <2>3. PICK f \in [S -> S] : \A at \in S : f[at] = IF step[at] = at THEN at ELSE f[step[at]]
        <3>1. Nearing(S, step, distance)
            BY <2>2 DEF Nearing
        <3>2. \E f \in [S -> S] : IsEndOf(S, step, f)
            BY ONLY <2>a, <2>b, <3>1, LoopsEnd
        <3> QED BY <3>2 DEF IsEndOf
    <2>4. IsEnd(f)
        <3>1. \A at \in S : f[at] = IF go(at) = at THEN at ELSE f[go(at)]
            BY <2>1, <2>3
        <3>2. f = [at \in S |-> f[at]]
            BY <2>3
        <3> QED BY <3>1, <3>2
    <2> HIDE DEF IsEnd
    <2> QED BY <2>4
<1>6. \A at \in S : end[at] = IF go(at) = at THEN at ELSE end[go(at)]
    <2> HIDE DEF end
    <2> QED BY <1>5
<1> HIDE DEF end
<1> DEFINE Right(at) == Scanned(pattern, at) => (Says(end[at]) <=> Hopeful(name, pattern, at))
           Wrong == {k \in 0..bound : \E at \in S : rank(at) = k /\ ~Right(at)}
<1>7. Wrong = {}
    <2> SUFFICES ASSUME Wrong # {} PROVE FALSE
        OBVIOUS
    <2>1. Wrong \subseteq Nat
        BY <1>2
    <2> HIDE DEF Wrong
    <2>2. PICK k \in Wrong : \A j \in Wrong : k <= j
        BY <2>1, LeastElement
    <2>3. PICK at \in S : rank(at) = k /\ ~Right(at)
        BY <2>2 DEF Wrong
    <2>4. Scanned(pattern, at) /\ ~(Says(end[at]) <=> Hopeful(name, pattern, at))
        BY <2>3
    <2> HIDE DEF Right
    <2>5. go(at) # at
        BY <1>3, <1>6, <2>4
    <2>6. go(at) \in S /\ rank(go(at)) \in 0..bound /\ rank(go(at)) < rank(at) /\ end[at] = end[go(at)]
        BY <1>2, <1>6, <2>5
    <2>7. rank(go(at)) \notin Wrong
        BY <1>2, <2>1, <2>2, <2>3, <2>6
    <2>8. Right(go(at))
        BY <2>6, <2>7 DEF Wrong
    <2> QED BY <1>3, <2>4, <2>6, <2>8 DEF Right
<1>8. Right(start)
    BY <1>2, <1>4, <1>7
<1> QED BY <1>1, <1>4, <1>8

-----------------------------------------------------------------------------
(* --find and --cat.  A path leads to nothing, or into the image.          *)
Destinations ==
    {p \in [dir : BOOLEAN, to : Nat] :
        p.to = 0 \/ p.to \in IF p.dir THEN DOMAIN image.dirs ELSE DOMAIN image.nodes}

(* One component of a path, as Resolve takes it.                           *)
Nowhere == [dir |-> FALSE, to |-> 0]
Enter(before, name) ==
    LET here == IF before.to = 0 \/ ~before.dir THEN {}
                ELSE {x \in DOMAIN Entries(before.to) : Entries(before.to)[x].name = name}
    IN  IF here = {} THEN Nowhere
        ELSE LET e == Entries(before.to)[Min(here)] IN [dir |-> e.dir, to |-> e.to]

Walks(w, path) ==
    w = [k \in 0..Len(path) |-> IF k = 0 THEN [dir |-> TRUE, to |-> Root] ELSE Enter(w[k - 1], path[k])]

LEMMA AnElement ==
    ASSUME NEW S, NEW s \in Seq(S), NEW i \in DOMAIN s
    PROVE  s[i] \in S
OBVIOUS

LEMMA OneMore ==
    ASSUME NEW S, NEW s \in Seq(S), NEW x \in S
    PROVE  Append(s, x) \in Seq(S)
OBVIOUS

LEMMA NamesEnter ==
    ASSUME NamesLead(image), NEW before \in Destinations, NEW name
    PROVE  Enter(before, name) \in Destinations
<1> DEFINE here == IF before.to = 0 \/ ~before.dir THEN {}
                   ELSE {x \in DOMAIN Entries(before.to) : Entries(before.to)[x].name = name}
           e == Entries(before.to)[Min(here)]
<1>1. Nowhere \in Destinations
    BY DEF Nowhere, Destinations
<1>2. Enter(before, name) = IF here = {} THEN Nowhere ELSE [dir |-> e.dir, to |-> e.to]
    BY DEF Enter
<1>3. ASSUME here # {} PROVE [dir |-> e.dir, to |-> e.to] \in Destinations
    <2> DEFINE entries == image.dirs[before.to]
    <2>1. before.dir /\ before.to # 0
        BY <1>3
    <2>2. before.to \in DOMAIN image.dirs
        BY <2>1 DEF Destinations
    <2>3. /\ entries \in Seq([name : Seq(STRING), dir : BOOLEAN, to : Nat])
          /\ \A x \in DOMAIN entries :
                entries[x].to \in IF entries[x].dir THEN DOMAIN image.dirs ELSE DOMAIN image.nodes
        BY <2>2 DEF NamesLead
    <2>4. here \subseteq DOMAIN entries /\ e = entries[Min(here)]
        BY <2>1 DEF Entries
    <2> HIDE DEF here, e, entries
    <2>5. here \subseteq Nat
        BY <2>3, <2>4
    <2>6. Min(here) \in here
        <3>1. PICK x \in here : \A y \in here : x <= y
            BY <1>3, <2>5, LeastElement
        <3> QED BY <3>1 DEF Min
    <2>7. e \in [name : Seq(STRING), dir : BOOLEAN, to : Nat]
          /\ e.to \in IF e.dir THEN DOMAIN image.dirs ELSE DOMAIN image.nodes
        <3>1. PICK m \in DOMAIN entries : m = Min(here)
            BY <2>4, <2>6
        <3>2. entries[m] \in [name : Seq(STRING), dir : BOOLEAN, to : Nat]
            BY <2>3, <3>1, AnElement
        <3>3. entries[m].to \in IF entries[m].dir THEN DOMAIN image.dirs ELSE DOMAIN image.nodes
            BY <2>3, <3>1
        <3> QED BY ONLY <2>4, <3>1, <3>2, <3>3, Zenon
    <2>8. e.dir \in BOOLEAN /\ e.to \in Nat
        BY <2>7
    <2>9. PICK d \in BOOLEAN, t \in Nat : e.dir = d /\ e.to = t
        BY <2>8
    <2>10. t \in IF d THEN DOMAIN image.dirs ELSE DOMAIN image.nodes
        BY <2>7, <2>9
    <2>11. [dir |-> d, to |-> t] \in Destinations
        BY <2>10 DEF Destinations
    <2> QED BY <2>9, <2>11
<1> HIDE DEF here, e
<1> QED BY <1>1, <1>2, <1>3

(* The steps by which Resolve follows a path.                              *)
IsWalk(w, path) ==
    /\ w[0] = [dir |-> TRUE, to |-> Root]
    /\ \A k \in 1..Len(path) : w[k] = Enter(w[k - 1], path[k])
    /\ \A k \in 0..Len(path) : w[k] \in Destinations
    /\ Resolve(path) = w[Len(path)]

LEMMA PathsAreWalked ==
    ASSUME NamesLead(image), NEW path \in Seq(Seq(STRING))
    PROVE  \E w : IsWalk(w, path)
<1> DEFINE N == Len(path)
           step == [k \in 1..N |-> [p \in Destinations |-> Enter(p, path[k])]]
           start == [dir |-> TRUE, to |-> Root]
           w == CHOOSE v : Walks(v, path)
<1>1. N \in Nat /\ start \in Destinations
    BY DEF Destinations, NamesLead, Root
<1>2. step \in [1..N -> [Destinations -> Destinations]]
    BY NamesEnter
<1>3. \A k \in 1..N, p \in Destinations : step[k][p] = Enter(p, path[k])
    OBVIOUS
<1> HIDE DEF step, start, N
<1>4. PICK f \in [0..N -> Destinations] : IsLoop(f, N, start, step)
    BY <1>1, <1>2, LoopHasValues
<1>5. Walks(f, path)
    <2>1. ASSUME NEW k \in 0..N PROVE f[k] = IF k = 0 THEN start ELSE Enter(f[k - 1], path[k])
        <3>1. CASE k = 0
            BY <1>4, <3>1 DEF IsLoop
        <3>2. CASE k # 0
            <4>1. k \in 1..N /\ k - 1 \in 0..N
                BY <1>1, <3>2
            <4>2. f[k] = step[k][f[k - 1]] /\ f[k - 1] \in Destinations
                BY <1>4, <4>1 DEF IsLoop
            <4> QED BY <1>3, <3>2, <4>1, <4>2
        <3> QED BY <3>1, <3>2
    <2>2. f = [k \in 0..N |-> f[k]]
        BY <1>4
    <2> QED BY <2>1, <2>2 DEF Walks, start, N
<1>6. Walks(w, path)
    BY <1>5
<1>7. Resolve(path) = w[N]
    BY DEF Resolve, Walks, Enter, Nowhere, N
<1> HIDE DEF w
<1>8. \A k \in 0..N : w[k] = IF k = 0 THEN start ELSE Enter(w[k - 1], path[k])
    BY <1>6 DEF Walks, start, N
<1> DEFINE Astray == {k \in 0..N : w[k] \notin Destinations}
<1>9. Astray = {}
    <2> SUFFICES ASSUME Astray # {} PROVE FALSE
        OBVIOUS
    <2>0. Astray \subseteq Nat
        BY <1>1
    <2> HIDE DEF Astray
    <2>1. PICK k \in Astray : \A j \in Astray : k <= j
        BY <2>0, LeastElement
    <2>2. k \in 0..N /\ w[k] \notin Destinations
        BY <2>1 DEF Astray
    <2>3. k # 0
        BY <1>1, <1>8, <2>2
    <2>4. k - 1 \in 0..N /\ ~(k <= k - 1)
        BY <1>1, <2>2, <2>3
    <2>5. w[k - 1] \in Destinations
        BY <2>1, <2>4 DEF Astray
    <2> QED BY <1>8, <2>2, <2>3, <2>5, NamesEnter
<1>10. IsWalk(w, path)
    <2>1. \A k \in 0..N : w[k] \in Destinations
        BY <1>9
    <2>2. 0 \in 0..N /\ \A k \in 1..N : k \in 0..N /\ k # 0
        BY <1>1
    <2> QED BY <1>7, <1>8, <2>1, <2>2 DEF IsWalk, start, N
<1> QED BY <1>10

LEMMA PathsLead ==
    ASSUME NamesLead(image), NEW path \in Seq(Seq(STRING))
    PROVE  Resolve(path) \in Destinations
<1>1. PICK w : IsWalk(w, path)
    BY PathsAreWalked
<1>2. Len(path) \in 0..Len(path)
    OBVIOUS
<1> QED BY <1>1, <1>2 DEF IsWalk


(* What a path leads to is what its last name leads to from the rest.      *)
LEMMA ResolveAppend ==
    ASSUME NamesLead(image), NEW path \in Seq(Seq(STRING)), NEW name \in Seq(STRING)
    PROVE  Resolve(Append(path, name)) = Enter(Resolve(path), name)
<1> DEFINE N == Len(path)
           longer == Append(path, name)
<1>1. /\ N \in Nat /\ longer \in Seq(Seq(STRING)) /\ Len(longer) = N + 1 /\ longer[N + 1] = name
      /\ \A k \in 1..N : longer[k] = path[k]
    OBVIOUS
<1>2. PICK v : IsWalk(v, path)
    BY PathsAreWalked
<1> HIDE DEF longer
<1>3. PICK w : IsWalk(w, longer)
    BY <1>1, PathsAreWalked
<1>4. /\ v[0] = w[0]
      /\ \A k \in 1..N : v[k] = Enter(v[k - 1], path[k]) /\ w[k] = Enter(w[k - 1], path[k])
      /\ w[N + 1] = Enter(w[N], name) /\ Resolve(longer) = w[N + 1] /\ Resolve(path) = v[N]
    <2>1. \A k \in 1..(N + 1) : w[k] = Enter(w[k - 1], longer[k])
        BY <1>1, <1>3 DEF IsWalk
    <2>2. N + 1 \in 1..(N + 1) /\ (N + 1) - 1 = N /\ \A k \in 1..N : k \in 1..(N + 1)
        BY <1>1
    <2> QED BY <1>1, <1>2, <1>3, <2>1, <2>2 DEF IsWalk
<1> DEFINE Astray == {k \in 0..N : v[k] # w[k]}
<1>5. Astray = {}
    <2> SUFFICES ASSUME Astray # {} PROVE FALSE
        OBVIOUS
    <2>1. Astray \subseteq Nat
        OBVIOUS
    <2> HIDE DEF Astray
    <2>2. PICK k \in Astray : \A j \in Astray : k <= j
        BY <2>1, LeastElement
    <2>3. k \in 0..N /\ v[k] # w[k]
        BY <2>2 DEF Astray
    <2>4. k # 0
        BY <1>4, <2>3
    <2>5. k \in 1..N /\ k - 1 \in 0..N /\ k - 1 \notin Astray
        BY <1>1, <2>2, <2>3, <2>4
    <2>6. v[k - 1] = w[k - 1]
        BY <2>5 DEF Astray
    <2> QED BY <1>4, <2>3, <2>5, <2>6
<1>6. v[N] = w[N]
    BY <1>1, <1>5
<1> QED BY <1>4, <1>6 DEF longer

LEMMA RootResolves ==
    ASSUME NamesLead(image)
    PROVE  Resolve(<<>>) = [dir |-> TRUE, to |-> Root]
<1>1. <<>> \in Seq(Seq(STRING)) /\ Len(<<>>) = 0
    OBVIOUS
<1>2. PICK w : IsWalk(w, <<>>)
    BY <1>1, PathsAreWalked
<1> QED BY <1>1, <1>2 DEF IsWalk

(* A name leads somewhere only from a directory, and by one of its         *)
(* entries.                                                                *)
LEMMA LedByAnEntry ==
    ASSUME NEW before, NEW name, Enter(before, name).to # 0
    PROVE  /\ before.to # 0 /\ before.dir
           /\ \E x \in DOMAIN Entries(before.to) : Entries(before.to)[x].name = name
<1> DEFINE here == IF before.to = 0 \/ ~before.dir THEN {}
                   ELSE {x \in DOMAIN Entries(before.to) : Entries(before.to)[x].name = name}
<1>1. here # {}
    <2> SUFFICES ASSUME here = {} PROVE FALSE
        OBVIOUS
    <2>1. Enter(before, name) = Nowhere
        BY DEF Enter
    <2> QED BY <2>1 DEF Nowhere
<1> QED BY <1>1

(* An entry whose name is the only one of its kind leads where it says.    *)
LEMMA EntriesLead ==
    ASSUME Walkable(image), NEW d \in DOMAIN image.dirs, NEW x \in DOMAIN Entries(d)
    PROVE  LET e == Entries(d)[x]
           IN  /\ e \in [name : Seq(STRING), dir : BOOLEAN, to : Nat] /\ e.to # 0
               /\ e.dir => e.to \in DOMAIN image.dirs
               /\ Enter([dir |-> TRUE, to |-> d], e.name) = [dir |-> e.dir, to |-> e.to]
<1> DEFINE entries == image.dirs[d]
           e == entries[x]
           before == [dir |-> TRUE, to |-> d]
           here == {y \in DOMAIN entries : entries[y].name = e.name}
<1>1. /\ entries \in Seq([name : Seq(STRING), dir : BOOLEAN, to : Nat])
      /\ Entries(d) = entries /\ x \in DOMAIN entries
      /\ \A y \in DOMAIN entries :
            entries[y].to \in IF entries[y].dir THEN DOMAIN image.dirs ELSE DOMAIN image.nodes
      /\ \A y \in DOMAIN entries : entries[y].name = e.name => y = x
    BY DEF Walkable, NamesLead, Entries
<1>2. e \in [name : Seq(STRING), dir : BOOLEAN, to : Nat]
    BY <1>1, AnElement
<1>3. e.to # 0 /\ (e.dir => e.to \in DOMAIN image.dirs) /\ d # 0
    BY <1>1 DEF Walkable
<1>4. here = {x}
    BY <1>1
<1>5. Min(here) = x
    <2>1. DOMAIN entries \subseteq Nat
        BY <1>1
    <2>2. x \in Nat
        BY <1>1, <2>1
    <2>3. Min({x}) = x
        BY <2>2 DEF Min
    <2> QED BY <1>4, <2>3
<1>6. before.to = d /\ before.dir
    OBVIOUS
<1> HIDE DEF here, before, e, entries
<1>7. Enter(before, e.name) = IF here = {} THEN Nowhere ELSE [dir |-> entries[Min(here)].dir, to |-> entries[Min(here)].to]
    BY <1>1, <1>3, <1>6 DEF Enter, here
<1>8. Enter(before, e.name) = [dir |-> e.dir, to |-> e.to]
    BY <1>4, <1>5, <1>7 DEF e
<1> QED BY <1>1, <1>2, <1>3, <1>8 DEF e, before

-----------------------------------------------------------------------------
(* --find.  The paths below a directory, told by their names and where     *)
(* they lead.                                                              *)
Paths == Seq(Seq(STRING))
Above(q, p) == Len(q) <= Len(p) /\ \A i \in 1..Len(q) : p[i] = q[i]

Descends(start, p) ==
    /\ p \in Paths /\ Above(start, p) /\ Len(start) < Len(p)
    /\ \A i \in (Len(start) + 1)..Len(p) : p[i] \notin Dots
    /\ Resolve(p).to # 0

IsDirectory(path) == Resolve(path).dir /\ Resolve(path).to # 0

(* The first names of a path.                                              *)
Upto(p, k) == SubSeq(p, 1, k)

LEMMA SameNames ==
    ASSUME NEW S, NEW a \in Seq(S), NEW b \in Seq(S), Len(a) = Len(b),
           \A i \in 1..Len(a) : a[i] = b[i]
    PROVE  a = b
<1>1. a = [i \in 1..Len(a) |-> a[i]] /\ b = [i \in 1..Len(b) |-> b[i]]
    OBVIOUS
<1> QED BY <1>1

LEMMA UptoFacts ==
    ASSUME NEW p \in Paths, NEW k \in 0..Len(p)
    PROVE  /\ Upto(p, k) \in Paths /\ Len(Upto(p, k)) = k
           /\ \A i \in 1..k : Upto(p, k)[i] = p[i]
           /\ k = Len(p) => Upto(p, k) = p
           /\ k < Len(p) => /\ p[k + 1] \in Seq(STRING)
                            /\ Upto(p, k + 1) = Append(Upto(p, k), p[k + 1])
<1>1. Upto(p, k) \in Paths /\ Len(Upto(p, k)) = k /\ \A i \in 1..k : Upto(p, k)[i] = p[i]
    BY DEF Upto, Paths
<1>2. ASSUME k = Len(p) PROVE Upto(p, k) = p
    BY <1>2 DEF Upto, Paths
<1>3. ASSUME k < Len(p)
      PROVE  p[k + 1] \in Seq(STRING) /\ Upto(p, k + 1) = Append(Upto(p, k), p[k + 1])
    <2>1. k + 1 \in 1..Len(p) /\ k + 1 \in DOMAIN p
        BY <1>3 DEF Paths
    <2>2. p[k + 1] \in Seq(STRING)
        BY <2>1, AnElement DEF Paths
    <2>3. Upto(p, k + 1) = Append(Upto(p, k), p[k + 1])
        BY <2>1 DEF Upto, Paths
    <2> QED BY <2>2, <2>3
<1> QED BY <1>1, <1>2, <1>3

(* Everything on the way is a directory, with an entry for the next name.  *)
LEMMA TheWayLeads ==
    ASSUME NamesLead(image), NEW p \in Paths, Resolve(p).to # 0
    PROVE  \A k \in 0..Len(p) :
              /\ Resolve(Upto(p, k)).to # 0
              /\ k < Len(p) => /\ IsDirectory(Upto(p, k))
                               /\ \E x \in DOMAIN Entries(Resolve(Upto(p, k)).to) :
                                     Entries(Resolve(Upto(p, k)).to)[x].name = p[k + 1]
<1> DEFINE N == Len(p)
           Leads(j) == Resolve(Upto(p, N - j)).to # 0
           Astray == {j \in 0..N : ~Leads(j)}
<1>1. N \in Nat /\ N - 0 = N /\ N \in 0..N
    BY DEF Paths
<1>2. ASSUME NEW k \in 0..N, k < N, Resolve(Upto(p, k + 1)).to # 0
      PROVE  /\ IsDirectory(Upto(p, k))
             /\ \E x \in DOMAIN Entries(Resolve(Upto(p, k)).to) :
                   Entries(Resolve(Upto(p, k)).to)[x].name = p[k + 1]
    <2>1. Upto(p, k) \in Paths /\ p[k + 1] \in Seq(STRING) /\ Upto(p, k + 1) = Append(Upto(p, k), p[k + 1])
        BY <1>2, UptoFacts
    <2>2. Resolve(Upto(p, k + 1)) = Enter(Resolve(Upto(p, k)), p[k + 1])
        BY <2>1, ResolveAppend DEF Paths
    <2>3. Enter(Resolve(Upto(p, k)), p[k + 1]).to # 0
        BY <1>2, <2>2
    <2> QED BY <2>3, LedByAnEntry DEF IsDirectory
<1>3. Leads(0)
    BY <1>1, UptoFacts
<1>4. Astray = {}
    <2> SUFFICES ASSUME Astray # {} PROVE FALSE
        OBVIOUS
    <2>1. Astray \subseteq Nat
        OBVIOUS
    <2> HIDE DEF Astray
    <2>2. PICK j \in Astray : \A i \in Astray : j <= i
        BY <2>1, LeastElement
    <2>3. j \in 0..N /\ ~Leads(j)
        BY <2>2 DEF Astray
    <2>4. j # 0
        BY <1>3, <2>3
    <2>5. j - 1 \in 0..N /\ j - 1 \notin Astray /\ N - j \in 0..N /\ N - j < N /\ (N - j) + 1 = N - (j - 1)
        BY <1>1, <2>2, <2>3, <2>4
    <2>6. Leads(j - 1)
        BY <2>5 DEF Astray
    <2>7. IsDirectory(Upto(p, N - j))
        BY <1>2, <2>5, <2>6
    <2> QED BY <2>3, <2>7 DEF IsDirectory
<1>5. \A k \in 0..N : Resolve(Upto(p, k)).to # 0
    <2> TAKE k \in 0..N
    <2>1. N - k \in 0..N /\ N - (N - k) = k
        BY <1>1
    <2>2. Leads(N - k)
        <3> HIDE DEF Leads
        <3> QED BY <1>4, <2>1
    <2> QED BY <2>1, <2>2
<1>6. \A k \in 0..N : k < N => k + 1 \in 0..N
    BY <1>1
<1> QED BY <1>2, <1>5, <1>6

(* An entry of a directory that descends, or of the start, descends.       *)
LEMMA EntriesDescend ==
    ASSUME Walkable(image), NEW start \in Paths, NEW q \in Paths, q = start \/ Descends(start, q),
           NEW d \in DOMAIN image.dirs, Resolve(q) = [dir |-> TRUE, to |-> d],
           NEW x \in DOMAIN Entries(d)
    PROVE  LET e == Entries(d)[x]
               p == Append(q, e.name)
           IN  /\ p \in Paths /\ Resolve(p) = [dir |-> e.dir, to |-> e.to]
               /\ e.name \notin Dots => Descends(start, p)
<1> DEFINE e == Entries(d)[x]
           p == Append(q, e.name)
<1>1. /\ e \in [name : Seq(STRING), dir : BOOLEAN, to : Nat] /\ e.to # 0
      /\ Enter([dir |-> TRUE, to |-> d], e.name) = [dir |-> e.dir, to |-> e.to]
    BY EntriesLead
<1>2. PICK name \in Seq(STRING) : name = e.name
    BY <1>1
<1>3. Resolve(Append(q, name)) = Enter(Resolve(q), name)
    BY ResolveAppend DEF Paths, Walkable
<1>4. Resolve(Append(q, name)) = [dir |-> e.dir, to |-> e.to]
    BY <1>1, <1>2, <1>3
<1>5. /\ Append(q, name) \in Paths /\ Len(Append(q, name)) = Len(q) + 1 /\ Append(q, name)[Len(q) + 1] = name
      /\ Len(q) \in Nat /\ Len(start) \in Nat /\ \A i \in 1..Len(q) : Append(q, name)[i] = q[i]
    BY DEF Paths
<1>6. ASSUME name \notin Dots PROVE Descends(start, Append(q, name))
    <2> DEFINE r == Append(q, name)
    <2>1. Above(start, q) /\ Len(start) <= Len(q) /\ \A i \in (Len(start) + 1)..Len(q) : q[i] \notin Dots
        BY <1>5 DEF Descends, Above
    <2>2. Above(start, r) /\ Len(start) < Len(r)
        BY <1>5, <2>1 DEF Above
    <2>3. \A i \in (Len(start) + 1)..Len(r) : r[i] \notin Dots
        <3> TAKE i \in (Len(start) + 1)..Len(r)
        <3>1. i = Len(q) + 1 \/ (i \in 1..Len(q) /\ i \in (Len(start) + 1)..Len(q))
            BY <1>5
        <3> QED BY <1>5, <1>6, <2>1, <3>1
    <2>4. Resolve(r).to # 0
        BY <1>1, <1>4
    <2> HIDE DEF r
    <2> QED BY <1>5, <2>2, <2>3, <2>4 DEF Descends, r
<1> QED BY <1>2, <1>4, <1>5, <1>6

(* Where a path that descends passes a directory it descends by an entry   *)
(* that is no dot.                                                         *)
LEMMA DescendsByEntry ==
    ASSUME Walkable(image), NEW start \in Paths, NEW p, Descends(start, p),
           NEW q \in Paths, Above(start, q), Above(q, p), Len(q) < Len(p)
    PROVE  /\ IsDirectory(q) /\ p[Len(q) + 1] \notin Dots
           /\ \E x \in DOMAIN Entries(Resolve(q).to) :
                 /\ Entries(Resolve(q).to)[x].name = p[Len(q) + 1]
                 /\ Above(Append(q, p[Len(q) + 1]), p)
           /\ q # start => Descends(start, q)
<1> DEFINE k == Len(q)
<1>1. p \in Paths /\ Resolve(p).to # 0 /\ k \in 0..Len(p) /\ k < Len(p) /\ Len(start) <= k /\ Len(start) \in Nat
      /\ Len(p) \in Nat /\ k \in Nat
    BY DEF Descends, Above, Paths
<1>2. Upto(p, k) = q
    <2>1. Upto(p, k) \in Paths /\ Len(Upto(p, k)) = k /\ \A i \in 1..k : Upto(p, k)[i] = p[i]
        BY <1>1, UptoFacts
    <2>2. \A i \in 1..k : Upto(p, k)[i] = q[i]
        BY <2>1 DEF Above
    <2>3. Upto(p, k) \in Seq(Seq(STRING)) /\ q \in Seq(Seq(STRING)) /\ Len(q) = k
        BY <2>1 DEF Paths
    <2> HIDE DEF k
    <2> QED BY ONLY <2>1, <2>2, <2>3, SameNames
<1>3. /\ Resolve(q).to # 0 /\ IsDirectory(q)
      /\ \E x \in DOMAIN Entries(Resolve(q).to) : Entries(Resolve(q).to)[x].name = p[k + 1]
    <2> HIDE DEF k
    <2> QED BY <1>1, <1>2, TheWayLeads DEF Walkable
<1>4. p[k + 1] \notin Dots
    <2>1. k + 1 \in (Len(start) + 1)..Len(p)
        BY <1>1
    <2> QED BY <2>1 DEF Descends
<1>5. Above(Append(q, p[k + 1]), p)
    <2>1. p[k + 1] \in Seq(STRING)
        BY <1>1, UptoFacts
    <2>2. Len(Append(q, p[k + 1])) = k + 1 /\ \A i \in 1..(k + 1) : Append(q, p[k + 1])[i] = IF i = k + 1 THEN p[k + 1] ELSE q[i]
        BY <2>1 DEF Paths
    <2>3. \A i \in 1..(k + 1) : i = k + 1 \/ i \in 1..k
        BY <1>1
    <2> QED BY <1>1, <2>2, <2>3 DEF Above
<1>6. ASSUME q # start PROVE Descends(start, q)
    <2>1. Len(start) # Len(q)
        <3> SUFFICES ASSUME Len(start) = Len(q) PROVE FALSE
            OBVIOUS
        <3>1. \A i \in 1..Len(q) : q[i] = start[i]
            BY DEF Above
        <3>2. start \in Seq(Seq(STRING)) /\ q \in Seq(Seq(STRING))
            BY DEF Paths
        <3> QED BY ONLY <1>6, <3>1, <3>2, Len(start) = Len(q), SameNames
    <2>2. \A i \in (Len(start) + 1)..Len(q) : q[i] \notin Dots
        <3> TAKE i \in (Len(start) + 1)..Len(q)
        <3>1. i \in 1..Len(q) /\ i \in (Len(start) + 1)..Len(p)
            BY <1>1
        <3>2. q[i] = p[i]
            BY <3>1 DEF Above
        <3> QED BY <3>1, <3>2 DEF Descends
    <2> QED BY <1>1, <1>3, <2>1, <2>2 DEF Descends
<1> QED BY <1>3, <1>4, <1>5, <1>6

(* The levels that Below goes through.                                     *)
IsLevels(level, path) ==
    level = [k \in 0..Depth |-> IF k = 0 THEN {path} ELSE NextLevel(level[k - 1])]

LEMMA NamesOfEntries ==
    ASSUME NamesLead(image)
    PROVE  /\ EntryNames \subseteq Seq(STRING) /\ \A name \in EntryNames : name \notin Dots
           /\ \A d \in DOMAIN image.dirs : \A x \in DOMAIN Entries(d) :
                 Entries(d)[x].name \notin Dots => Entries(d)[x].name \in EntryNames
<1>1. ASSUME NEW d \in DOMAIN image.dirs, NEW x \in DOMAIN Entries(d)
      PROVE  Entries(d)[x].name \in Seq(STRING) /\ Entries(d)[x] \in Range(Entries(d))
    <2>1. Entries(d) \in Seq([name : Seq(STRING), dir : BOOLEAN, to : Nat])
        BY DEF NamesLead, Entries
    <2>2. Entries(d)[x] \in [name : Seq(STRING), dir : BOOLEAN, to : Nat]
        BY <2>1, AnElement
    <2> QED BY <2>2 DEF Range
<1>2. ASSUME NEW name \in EntryNames PROVE name \in Seq(STRING) /\ name \notin Dots
    <2>1. \E d \in DOMAIN image.dirs : \E e \in Range(Entries(d)) : e.name \notin Dots /\ name = e.name
        BY DEF EntryNames
    <2>2. PICK d \in DOMAIN image.dirs : \E e \in Range(Entries(d)) : e.name \notin Dots /\ name = e.name
        BY ONLY <2>1
    <2>3. PICK x \in DOMAIN Entries(d) : Entries(d)[x].name \notin Dots /\ name = Entries(d)[x].name
        BY <2>2 DEF Range
    <2> QED BY <1>1, <2>3
<1>3. ASSUME NEW d \in DOMAIN image.dirs, NEW x \in DOMAIN Entries(d), Entries(d)[x].name \notin Dots
      PROVE  Entries(d)[x].name \in EntryNames
    <2>1. Entries(d)[x] \in Range(Entries(d))
        BY <1>1
    <2> QED BY <1>3, <2>1 DEF EntryNames
<1> QED BY <1>2, <1>3

LEMMA InNextLevel ==
    ASSUME NEW level, NEW r
    PROVE  r \in NextLevel(level) <=>
               \E p \in level : \E name \in EntryNames :
                   IsDirectory(p) /\ r = Append(p, name)
<1> DEFINE here == {q \in level : Resolve(q).dir /\ Resolve(q).to # 0}
<1>1. \A p : p \in here <=> p \in level /\ IsDirectory(p)
    BY DEF IsDirectory
<1>2. NextLevel(level) = {Append(p, name) : p \in here, name \in EntryNames}
    BY DEF NextLevel
<1> HIDE DEF here
<1>3. r \in NextLevel(level) <=> \E p \in here : \E name \in EntryNames : r = Append(p, name)
    <2>1. ASSUME NEW s \in NextLevel(level) PROVE \E p \in here : \E name \in EntryNames : s = Append(p, name)
        BY ONLY <1>2, <2>1
    <2>2. ASSUME NEW p \in here, NEW name \in EntryNames PROVE Append(p, name) \in NextLevel(level)
        BY ONLY <1>2, <2>2
    <2> QED BY <2>1, <2>2
<1> QED BY <1>1, <1>3

LEMMA LevelsExist ==
    ASSUME NamesLead(image), NEW path \in Paths, Depth \in Nat
    PROVE  \E level : /\ level[0] = {path}
                      /\ \A k \in 1..Depth : level[k] = NextLevel(level[k - 1])
                      /\ \A k \in 0..Depth : level[k] \in SUBSET Paths
                      /\ Below(path) = {p \in UNION {level[k] : k \in 1..Depth} : Resolve(p).to # 0}
<1> DEFINE V == SUBSET Paths
           step == [k \in 1..Depth |-> [level \in V |-> NextLevel(level)]]
           start == {path}
           levels == CHOOSE level : IsLevels(level, path)
<1>1. ASSUME NEW level \in V PROVE NextLevel(level) \in V
    <2>1. ASSUME NEW p \in level, NEW name \in EntryNames PROVE Append(p, name) \in Paths
        <3>1. p \in Seq(Seq(STRING)) /\ name \in Seq(STRING)
            BY <2>1, NamesOfEntries DEF Paths
        <3> QED BY <3>1, OneMore DEF Paths
    <2> SUFFICES ASSUME NEW r \in NextLevel(level) PROVE r \in Paths
        OBVIOUS
    <2>2. \E p \in level : \E name \in EntryNames : IsDirectory(p) /\ r = Append(p, name)
        BY ONLY InNextLevel
    <2> QED BY ONLY <2>1, <2>2
<1>2. start \in V
    OBVIOUS
<1>3. step \in [1..Depth -> [V -> V]] /\ \A k \in 1..Depth, level \in V : step[k][level] = NextLevel(level)
    BY <1>1
<1> HIDE DEF step, start, V
<1>4. PICK f \in [0..Depth -> V] : IsLoop(f, Depth, start, step)
    BY <1>2, <1>3, LoopHasValues
<1>5. f[0] = {path} /\ \A k \in 1..Depth : f[k] = NextLevel(f[k - 1])
    <2>1. \A k \in 1..Depth : k - 1 \in 0..Depth
        OBVIOUS
    <2>2. \A k \in 1..Depth : f[k] = step[k][f[k - 1]] /\ f[k - 1] \in V
        BY <1>4, <2>1 DEF IsLoop
    <2> QED BY <1>3, <1>4, <2>2 DEF IsLoop, start
<1>6. IsLevels(f, path)
    <2>1. \A k \in 0..Depth : f[k] = IF k = 0 THEN {path} ELSE NextLevel(f[k - 1])
        BY <1>5
    <2>2. f = [k \in 0..Depth |-> f[k]]
        BY <1>4
    <2>3. f = [k \in 0..Depth |-> IF k = 0 THEN {path} ELSE NextLevel(f[k - 1])]
        BY <2>1, <2>2
    <2> QED BY <2>3 DEF IsLevels
<1>7. IsLevels(levels, path)
    <2> HIDE DEF IsLevels
    <2> QED BY <1>6
<1>8. Below(path) = {p \in UNION {levels[k] : k \in 1..Depth} : Resolve(p).to # 0}
    BY DEF Below, IsLevels
<1> HIDE DEF levels
<1>9. \A k \in 0..Depth : levels[k] = IF k = 0 THEN {path} ELSE NextLevel(levels[k - 1])
    BY <1>7 DEF IsLevels
<1> DEFINE Astray == {k \in 0..Depth : levels[k] \notin V}
<1>10. Astray = {}
    <2> SUFFICES ASSUME Astray # {} PROVE FALSE
        OBVIOUS
    <2>1. Astray \subseteq Nat
        OBVIOUS
    <2> HIDE DEF Astray
    <2>2. PICK k \in Astray : \A j \in Astray : k <= j
        BY <2>1, LeastElement
    <2>3. k \in 0..Depth /\ levels[k] \notin V
        BY <2>2 DEF Astray
    <2>4. k # 0
        BY <1>2, <1>9, <2>3 DEF start
    <2>5. k - 1 \in 0..Depth /\ k - 1 \notin Astray
        BY <2>2, <2>3, <2>4
    <2>6. levels[k - 1] \in V
        BY <2>5 DEF Astray
    <2> QED BY <1>1, <1>9, <2>3, <2>4, <2>6
<1>11. levels[0] = {path} /\ \A k \in 1..Depth : levels[k] = NextLevel(levels[k - 1])
    BY <1>9
<1>12. \A k \in 0..Depth : levels[k] \in SUBSET Paths
    BY <1>10 DEF V
<1> QED BY <1>8, <1>11, <1>12

LEMMA DepthIsANumber ==
    ASSUME Walkable(image)
    PROVE  Depth \in Nat
BY FS_CardinalityType DEF Walkable, Depth

(* A path of k names below the start is in level k.                        *)
LEMMA LevelsReach ==
    ASSUME Walkable(image), NEW start \in Paths, NEW level, level[0] = {start},
           \A k \in 1..Depth : level[k] = NextLevel(level[k - 1]),
           NEW p, Descends(start, p)
    PROVE  \A k \in 0..Depth :
              Len(start) + k <= Len(p) => Upto(p, Len(start) + k) \in level[k]
<1> DEFINE N == Len(start)
           Missed == {k \in 0..Depth : N + k <= Len(p) /\ Upto(p, N + k) \notin level[k]}
<1>1. p \in Paths /\ Resolve(p).to # 0 /\ Above(start, p) /\ N \in Nat /\ Len(p) \in Nat /\ NamesLead(image)
    BY DEF Descends, Paths, Walkable
<1>2. Upto(p, N) = start
    <2>1. N \in 0..Len(p)
        BY <1>1 DEF Above
    <2>2. Upto(p, N) \in Seq(Seq(STRING)) /\ Len(Upto(p, N)) = N /\ \A i \in 1..N : Upto(p, N)[i] = start[i]
        BY <1>1, <2>1, UptoFacts DEF Above, Paths
    <2>3. start \in Seq(Seq(STRING)) /\ Len(start) = N
        BY DEF Paths
    <2> HIDE DEF N
    <2> QED BY ONLY <2>2, <2>3, SameNames
<1> SUFFICES ASSUME Missed # {} PROVE FALSE
    OBVIOUS
<1>3. Missed \subseteq Nat
    BY DepthIsANumber
<1> HIDE DEF Missed
<1>4. PICK k \in Missed : \A j \in Missed : k <= j
    BY <1>3, LeastElement
<1>5. k \in 0..Depth /\ N + k <= Len(p) /\ Upto(p, N + k) \notin level[k]
    BY <1>4 DEF Missed
<1>6. k # 0
    BY <1>1, <1>2, <1>5
<1>7. k - 1 \in 0..Depth /\ k - 1 \notin Missed /\ N + (k - 1) <= Len(p) /\ k \in 1..Depth
    BY <1>1, <1>4, <1>5, <1>6, DepthIsANumber
<1>8. PICK j \in 0..Len(p) : j = N + (k - 1)
    <2>1. N \in Nat /\ Len(p) \in Nat /\ k \in Nat \ {0} /\ N + (k - 1) <= Len(p)
        BY <1>1, <1>6, <1>7, DepthIsANumber
    <2> HIDE DEF N
    <2>2. N + (k - 1) \in 0..Len(p)
        BY <2>1
    <2> QED BY <2>2
<1>9. j < Len(p) /\ j + 1 = N + k /\ Upto(p, j) \in level[k - 1]
    BY <1>1, <1>5, <1>7, <1>8 DEF Missed
<1>10. /\ IsDirectory(Upto(p, j))
       /\ \E x \in DOMAIN Entries(Resolve(Upto(p, j)).to) : Entries(Resolve(Upto(p, j)).to)[x].name = p[j + 1]
    BY <1>1, <1>9, TheWayLeads
<1>11. p[j + 1] \notin Dots
    <2>1. j + 1 \in (N + 1)..Len(p)
        BY <1>1, <1>5, <1>6, <1>8, <1>9
    <2> QED BY <2>1 DEF Descends
<1>12. p[j + 1] \in EntryNames
    <2>1. Upto(p, j) \in Paths
        BY <1>1, UptoFacts
    <2>2. Resolve(Upto(p, j)).to \in DOMAIN image.dirs
        BY <1>1, <1>10, <2>1, PathsLead DEF IsDirectory, Paths, Destinations
    <2> QED BY <1>1, <1>10, <1>11, <2>2, NamesOfEntries
<1>13. Upto(p, j + 1) = Append(Upto(p, j), p[j + 1])
    BY <1>1, <1>9, UptoFacts
<1>14. Upto(p, j + 1) \in NextLevel(level[k - 1])
    <2>1. \E q \in level[k - 1] : \E name \in EntryNames : IsDirectory(q) /\ Upto(p, j + 1) = Append(q, name)
        BY ONLY <1>9, <1>10, <1>12, <1>13
    <2> QED BY ONLY <2>1, InNextLevel
<1> QED BY <1>5, <1>7, <1>9, <1>14

LEMMA TheWayDescends ==
    ASSUME Walkable(image), NEW start \in Paths, NEW p, Descends(start, p),
           NEW j \in Len(start)..(Len(p) - 1)
    PROVE  LET q == Upto(p, j)
           IN  /\ q \in Paths /\ Len(q) = j /\ Above(start, q) /\ Above(q, p)
               /\ q = start \/ Descends(start, q)
               /\ Resolve(q).to \in DOMAIN image.dirs /\ Resolve(q) = [dir |-> TRUE, to |-> Resolve(q).to]
               /\ \E x \in DOMAIN Entries(Resolve(q).to) :
                     LET e == Entries(Resolve(q).to)[x]
                     IN  /\ e.name = p[j + 1] /\ e.name \notin Dots
                         /\ Resolve(Upto(p, j + 1)) = [dir |-> e.dir, to |-> e.to]
<1> DEFINE q == Upto(p, j)
           d == Resolve(q).to
<1>1. p \in Paths /\ Above(start, p) /\ Len(start) \in Nat /\ Len(p) \in Nat /\ j \in 0..Len(p) /\ j < Len(p)
    BY DEF Descends, Paths
<1>2. /\ q \in Paths /\ Len(q) = j /\ \A i \in 1..j : q[i] = p[i]
      /\ p[j + 1] \in Seq(STRING) /\ Upto(p, j + 1) = Append(q, p[j + 1])
    BY <1>1, UptoFacts
<1> HIDE DEF q
<1>3. Above(start, q) /\ Above(q, p) /\ Len(q) < Len(p)
    <2>1. Above(q, p) /\ Len(q) < Len(p)
        BY <1>1, <1>2 DEF Above
    <2>2. Len(start) <= Len(q) /\ \A i \in 1..Len(start) : i \in 1..j
        BY <1>1, <1>2
    <2> QED BY <1>1, <1>2, <2>1, <2>2 DEF Above
<1>4. /\ IsDirectory(q) /\ p[Len(q) + 1] \notin Dots
      /\ \E x \in DOMAIN Entries(Resolve(q).to) : Entries(Resolve(q).to)[x].name = p[Len(q) + 1]
      /\ q # start => Descends(start, q)
    BY <1>2, <1>3, DescendsByEntry
<1>5. d \in DOMAIN image.dirs /\ Resolve(q) = [dir |-> TRUE, to |-> d]
    <2>1. Resolve(q) \in Destinations
        BY <1>2, PathsLead DEF Walkable, Paths
    <2> QED BY <1>4, <2>1 DEF IsDirectory, Destinations
<1>6. PICK x \in DOMAIN Entries(d) : Entries(d)[x].name = p[j + 1]
    BY <1>2, <1>4
<1>7. Resolve(Append(q, Entries(d)[x].name)) = [dir |-> Entries(d)[x].dir, to |-> Entries(d)[x].to]
    <2> HIDE DEF d
    <2> QED BY <1>2, <1>4, <1>5, EntriesDescend
<1> QED BY <1>2, <1>3, <1>4, <1>5, <1>6, <1>7 DEF q

(* A path below another has no more names than there are directories.      *)
LEMMA NotTooLong ==
    ASSUME Walkable(image), NEW start \in Paths, NEW p, Descends(start, p)
    PROVE  Len(p) - Len(start) <= Depth
<1> DEFINE N == Len(start)
           To(j) == Resolve(Upto(p, j)).to
<1>1. PICK height \in [DOMAIN image.dirs -> 1..Depth] :
          \A d \in DOMAIN image.dirs : \A x \in DOMAIN Entries(d) :
              LET e == Entries(d)[x] IN e.dir /\ e.name \notin Dots => height[e.to] < height[d]
    BY DEF Walkable, Depth, Entries
<1>2. Depth \in Nat /\ N \in Nat /\ Len(p) \in Nat /\ N < Len(p)
    BY DepthIsANumber DEF Descends, Paths
<1>3. ASSUME NEW j \in N..(Len(p) - 1)
      PROVE  /\ To(j) \in DOMAIN image.dirs /\ Resolve(Upto(p, j)).dir
             /\ \E x \in DOMAIN Entries(To(j)) :
                   LET e == Entries(To(j))[x]
                   IN  e.name \notin Dots /\ Resolve(Upto(p, j + 1)) = [dir |-> e.dir, to |-> e.to]
    BY TheWayDescends
<1> HIDE DEF To
<1>4. ASSUME NEW j \in N..(Len(p) - 1), j + 1 \in N..(Len(p) - 1)
      PROVE  height[To(j + 1)] < height[To(j)]
    <2>1. PICK x \in DOMAIN Entries(To(j)) :
              /\ Entries(To(j))[x].name \notin Dots
              /\ Resolve(Upto(p, j + 1)) = [dir |-> Entries(To(j))[x].dir, to |-> Entries(To(j))[x].to]
        BY <1>3
    <2>2. Entries(To(j))[x].dir /\ Entries(To(j))[x].to = To(j + 1)
        BY <1>3, <1>4, <2>1 DEF To
    <2> QED BY <1>1, <1>3, <2>1, <2>2
<1> DEFINE High == {j \in N..(Len(p) - 1) : height[To(j)] > Depth - (j - N)}
<1>5. High = {}
    <2> SUFFICES ASSUME High # {} PROVE FALSE
        OBVIOUS
    <2>1. High \subseteq Nat
        BY <1>2
    <2> HIDE DEF High
    <2>2. PICK j \in High : \A i \in High : j <= i
        BY <2>1, LeastElement
    <2>3. j \in N..(Len(p) - 1) /\ height[To(j)] > Depth - (j - N) /\ height[To(j)] \in 1..Depth
        BY <1>1, <1>3, <2>2 DEF High
    <2>4. j # N
        BY <1>2, <2>3
    <2>5. j - 1 \in N..(Len(p) - 1) /\ j - 1 \notin High /\ (j - 1) + 1 = j
        <3>1. j \in N..(Len(p) - 1)
            BY <2>3
        <3> HIDE DEF N
        <3>2. j - 1 \in N..(Len(p) - 1) /\ (j - 1) + 1 = j /\ ~(j <= j - 1)
            BY ONLY <1>2, <2>4, <3>1
        <3> QED BY ONLY <2>2, <3>2
    <2>6. height[To(j - 1)] <= Depth - ((j - 1) - N) /\ height[To(j - 1)] \in 1..Depth
        <3>1. To(j - 1) \in DOMAIN image.dirs
            BY <1>3, <2>5
        <3>2. height[To(j - 1)] \in 1..Depth
            BY <1>1, <3>1
        <3>3. ~(height[To(j - 1)] > Depth - ((j - 1) - N))
            BY <2>5 DEF High
        <3> HIDE DEF N
        <3> QED BY ONLY <1>2, <2>5, <3>2, <3>3
    <2>7. height[To(j)] < height[To(j - 1)]
        BY <1>4, <2>3, <2>5
    <2> QED BY <1>2, <2>3, <2>6, <2>7
<1>6. Len(p) - 1 \in N..(Len(p) - 1)
    BY <1>2
<1>7. height[To(Len(p) - 1)] \in 1..Depth /\ height[To(Len(p) - 1)] <= Depth - ((Len(p) - 1) - N)
    <2>1. height[To(Len(p) - 1)] \in 1..Depth
        BY <1>1, <1>3, <1>6
    <2>2. Len(p) - 1 \notin High
        BY <1>5
    <2> QED BY <1>2, <1>6, <2>1, <2>2
<1> QED BY <1>2, <1>7

(* Level k has paths of k names more, none of them a dot.                  *)
LEMMA LevelsFit ==
    ASSUME Walkable(image), NEW start \in Paths, NEW level, level[0] = {start},
           \A k \in 1..Depth : level[k] = NextLevel(level[k - 1])
    PROVE  \A k \in 0..Depth : \A p \in level[k] :
              /\ p \in Paths /\ Len(p) = Len(start) + k /\ Above(start, p)
              /\ \A i \in (Len(start) + 1)..Len(p) : p[i] \notin Dots
<1> DEFINE N == Len(start)
           Fitting(k, p) ==
               /\ p \in Paths /\ Len(p) = N + k /\ Above(start, p)
               /\ \A i \in (N + 1)..Len(p) : p[i] \notin Dots
           Astray == {k \in 0..Depth : \E p \in level[k] : ~Fitting(k, p)}
<1>1. N \in Nat /\ Depth \in Nat
    BY DepthIsANumber DEF Paths
<1>2. Fitting(0, start)
    BY <1>1 DEF Above
<1>3. ASSUME NEW k \in Nat, NEW p, Fitting(k, p), NEW name \in EntryNames
      PROVE  Fitting(k + 1, Append(p, name))
    <2>1. name \in Seq(STRING) /\ name \notin Dots
        BY NamesOfEntries DEF Walkable
    <2>2. /\ Append(p, name) \in Paths /\ Len(Append(p, name)) = N + (k + 1)
          /\ \A i \in 1..Len(p) : Append(p, name)[i] = p[i]
          /\ Append(p, name)[Len(p) + 1] = name
        BY <1>1, <1>3, <2>1 DEF Paths
    <2> DEFINE r == Append(p, name)
    <2> HIDE DEF r
    <2>3. \A i \in (N + 1)..Len(r) : r[i] \notin Dots
        <3> TAKE i \in (N + 1)..Len(r)
        <3>1. i = Len(p) + 1 \/ (i \in 1..Len(p) /\ i \in (N + 1)..Len(p))
            BY <1>1, <1>3, <2>2 DEF r
        <3> QED BY <1>3, <2>1, <2>2, <3>1 DEF r
    <2>4. Above(start, r)
        BY <1>1, <1>3, <2>2 DEF Above, r
    <2> QED BY <2>2, <2>3, <2>4 DEF r
<1> HIDE DEF Fitting
<1>4. Astray = {}
    <2> SUFFICES ASSUME Astray # {} PROVE FALSE
        OBVIOUS
    <2>1. Astray \subseteq Nat
        BY <1>1
    <2> HIDE DEF Astray
    <2>2. PICK k \in Astray : \A i \in Astray : k <= i
        BY <2>1, LeastElement
    <2>3. k \in 0..Depth
        BY <2>2 DEF Astray
    <2>4. PICK p \in level[k] : ~Fitting(k, p)
        BY <2>2 DEF Astray
    <2>5. k # 0
        BY <1>2, <2>4
    <2>6. k \in 1..Depth /\ k - 1 \in 0..Depth /\ k - 1 \in Nat /\ (k - 1) + 1 = k /\ k - 1 \notin Astray
        BY <1>1, <2>2, <2>3, <2>5
    <2>7. p \in NextLevel(level[k - 1])
        BY <2>4, <2>6
    <2>8. \E q \in level[k - 1] : \E name \in EntryNames : IsDirectory(q) /\ p = Append(q, name)
        BY ONLY <2>7, InNextLevel
    <2>9. PICK q \in level[k - 1], name \in EntryNames : p = Append(q, name)
        BY ONLY <2>8
    <2>10. Fitting(k - 1, q)
        BY <2>6 DEF Astray
    <2> QED BY <1>3, <2>4, <2>6, <2>9, <2>10
<1>5. ASSUME NEW k \in 0..Depth, NEW p \in level[k] PROVE Fitting(k, p)
    BY <1>4
<1> QED BY <1>5 DEF Fitting

(* Below, by the names of its paths.                                       *)
LEMMA BelowIs ==
    ASSUME Walkable(image), NEW start \in Paths
    PROVE  Below(start) = {p \in Paths : Descends(start, p)}
<1>1. Depth \in Nat /\ Len(start) \in Nat
    BY DepthIsANumber DEF Paths
<1>2. PICK level : /\ level[0] = {start}
                   /\ \A k \in 1..Depth : level[k] = NextLevel(level[k - 1])
                   /\ Below(start) = {p \in UNION {level[k] : k \in 1..Depth} : Resolve(p).to # 0}
    <2>1. NamesLead(image)
        BY DEF Walkable
    <2>2. \E level : /\ level[0] = {start}
                     /\ \A k \in 1..Depth : level[k] = NextLevel(level[k - 1])
                     /\ \A k \in 0..Depth : level[k] \in SUBSET Paths
                     /\ Below(start) = {p \in UNION {level[k] : k \in 1..Depth} : Resolve(p).to # 0}
        BY <1>1, <2>1, LevelsExist, Zenon
    <2> QED BY ONLY <2>2
<1>3. ASSUME NEW p \in Below(start) PROVE Descends(start, p)
    <2>1. PICK k \in 1..Depth : p \in level[k]
        BY <1>2
    <2>2. k \in 0..Depth
        OBVIOUS
    <2>3. /\ p \in Paths /\ Len(p) = Len(start) + k /\ Above(start, p)
          /\ \A i \in (Len(start) + 1)..Len(p) : p[i] \notin Dots
        BY ONLY <1>2, <2>1, <2>2, LevelsFit, Walkable(image), start \in Paths
    <2>4. Resolve(p).to # 0
        BY <1>2
    <2> QED BY <1>1, <2>3, <2>4 DEF Descends
<1>4. ASSUME NEW p, Descends(start, p) PROVE p \in Below(start)
    <2>1. p \in Paths /\ Len(p) \in Nat /\ Resolve(p).to # 0 /\ Len(start) < Len(p)
        BY <1>4 DEF Descends, Paths
    <2>2. Len(p) - Len(start) <= Depth
        BY <1>4, NotTooLong
    <2>3. PICK k \in 1..Depth : Len(start) + k = Len(p)
        BY <1>1, <2>1, <2>2
    <2>4. Upto(p, Len(start) + k) \in level[k]
        <3>1. k \in 0..Depth
            OBVIOUS
        <3>2. \A i \in 0..Depth : Len(start) + i <= Len(p) => Upto(p, Len(start) + i) \in level[i]
            BY ONLY <1>2, <1>4, LevelsReach, Walkable(image), start \in Paths
        <3> QED BY <2>1, <2>3, <3>1, <3>2
    <2>5. Upto(p, Len(p)) = p
        BY <2>1, UptoFacts
    <2> QED BY <1>2, <2>1, <2>3, <2>4, <2>5
<1> QED BY <1>3, <1>4 DEF Descends

-----------------------------------------------------------------------------
(* The walk.  A path that descends is still ahead when it lies below a     *)
(* directory that is pending, or at or below an entry that is listed.      *)
Ahead(pend, list, w, p) ==
    \/ \E k \in DOMAIN pend : Above(pend[k].path, p) /\ Len(pend[k].path) < Len(p)
    \/ \E x \in DOMAIN list : Above(Append(w, list[x].name), p)

(* A directory on the way: the start, or one that descends.                *)
OnTheWay(start, dir, path) ==
    /\ dir \in DOMAIN image.dirs /\ path \in Paths
    /\ path = start \/ Descends(start, path)
    /\ Resolve(path) = [dir |-> TRUE, to |-> dir]

(* What the listing has is left of the entries of a directory on the way.  *)
EntryRec == [name : Seq(STRING), dir : BOOLEAN, to : Nat]
LeftOf(start, list, w) ==
    /\ list \in Seq(EntryRec)
    /\ list # <<>> => \E d \in DOMAIN image.dirs :
          OnTheWay(start, d, w) /\ \A x \in DOMAIN list : \E y \in DOMAIN Entries(d) : list[x] = Entries(d)[y]
    /\ \A x, y \in DOMAIN list : list[x].name = list[y].name => x = y

(* No pending directory lies at, above or below another, or one of the     *)
(* entries listed.                                                         *)
Apart(pend, list, w) ==
    /\ \A k, l \in DOMAIN pend : k # l => ~Above(pend[k].path, pend[l].path)
    /\ \A k \in DOMAIN pend, x \in DOMAIN list :
          /\ ~Above(pend[k].path, Append(w, list[x].name))
          /\ ~Above(Append(w, list[x].name), pend[k].path)

NameFits(pattern, name) == pattern = None \/ MatchesPattern(name, pattern.name)
Sought(start, pattern, p) == Descends(start, p) /\ NameFits(pattern, p[Len(p)])

(* Printed is what was sought and is not ahead, each path once.            *)
PrintedSoFar(start, pattern, pend, list, w, prt) ==
    /\ prt \in Seq(Paths) /\ IsInjective(prt)
    /\ \A p \in Paths : p \in Range(prt) <=> Sought(start, pattern, p) /\ ~Ahead(pend, list, w, p)

Waiting(start, pend) ==
    /\ pend \in Seq([dir : DOMAIN image.dirs, path : Paths])
    /\ \A k \in DOMAIN pend : OnTheWay(start, pend[k].dir, pend[k].path)

Searching(start, pattern, pend, list, w, prt) ==
    /\ Waiting(start, pend) /\ LeftOf(start, list, w) /\ Apart(pend, list, w)
    /\ PrintedSoFar(start, pattern, pend, list, w, prt)

LEMMA AboveOrder ==
    ASSUME NEW q \in Paths, NEW p \in Paths, Above(q, p)
    PROVE  Len(q) <= Len(p) /\ (Len(q) = Len(p) => q = p)
<1>1. q \in Seq(Seq(STRING)) /\ p \in Seq(Seq(STRING)) /\ Len(q) <= Len(p) /\ \A i \in 1..Len(q) : q[i] = p[i]
    BY DEF Above, Paths
<1> QED BY ONLY <1>1, SameNames

LEMMA AboveFacts ==
    ASSUME NEW q \in Paths, NEW w \in Paths, NEW n \in Seq(STRING), NEW p \in Paths
    PROVE  /\ Append(w, n) \in Paths /\ Len(Append(w, n)) = Len(w) + 1
           /\ Above(w, w) /\ Above(w, Append(w, n))
           /\ Above(q, Append(w, n)) => Above(q, w) \/ q = Append(w, n)
           /\ Above(Append(w, n), p) => Above(w, p) /\ Len(w) < Len(p) /\ p[Len(w) + 1] = n
           /\ Above(q, w) /\ Above(w, p) => Above(q, p) /\ Len(q) <= Len(w) /\ Len(w) <= Len(p)
           /\ Above(q, p) /\ Len(q) = Len(p) => q = p
<1> DEFINE r == Append(w, n)
<1>1. /\ r \in Paths /\ Len(r) = Len(w) + 1 /\ \A i \in 1..Len(w) : r[i] = w[i]
      /\ r[Len(w) + 1] = n /\ Len(w) \in Nat /\ Len(q) \in Nat /\ Len(p) \in Nat
    BY DEF Paths
<1> HIDE DEF r
<1>2. Above(w, w) /\ Above(w, r)
    BY <1>1 DEF Above
<1>3. ASSUME NEW a \in Paths, NEW b \in Paths, Above(a, b), Len(a) = Len(b) PROVE a = b
    <2>1. a \in Seq(Seq(STRING)) /\ b \in Seq(Seq(STRING)) /\ \A i \in 1..Len(a) : a[i] = b[i]
        BY <1>3 DEF Above, Paths
    <2> QED BY <1>3, <2>1, SameNames
<1>4. ASSUME Above(q, r) PROVE Above(q, w) \/ q = r
    <2>1. CASE Len(q) = Len(r)
        BY <1>1, <1>3, <1>4, <2>1
    <2>2. CASE Len(q) # Len(r)
        BY <1>1, <1>4, <2>2 DEF Above
    <2> QED BY <2>1, <2>2
<1>5. ASSUME Above(r, p) PROVE Above(w, p) /\ Len(w) < Len(p) /\ p[Len(w) + 1] = n
    <2>1. Len(w) + 1 \in 1..Len(r) /\ \A i \in 1..Len(w) : i \in 1..Len(r)
        BY <1>1
    <2> QED BY <1>1, <1>5, <2>1 DEF Above
<1>6. ASSUME Above(q, w), Above(w, p) PROVE Above(q, p) /\ Len(q) <= Len(w) /\ Len(w) <= Len(p)
    BY <1>1, <1>6 DEF Above
<1> QED BY <1>1, <1>2, <1>3, <1>4, <1>5, <1>6 DEF r

(* A path that descends lies strictly below a directory on the way just    *)
(* when it lies at or below one of its entries.                            *)
LEMMA BelowAnEntry ==
    ASSUME Walkable(image), NEW start \in Paths, NEW d, NEW w, OnTheWay(start, d, w),
           NEW p, Descends(start, p)
    PROVE  (Above(w, p) /\ Len(w) < Len(p)) <=>
               \E x \in DOMAIN Entries(d) : Above(Append(w, Entries(d)[x].name), p)
<1>1. w \in Paths /\ p \in Paths /\ d \in DOMAIN image.dirs /\ Resolve(w) = [dir |-> TRUE, to |-> d]
    BY DEF OnTheWay, Descends
<1>2. ASSUME NEW x \in DOMAIN Entries(d) PROVE Entries(d)[x].name \in Seq(STRING)
    BY <1>1, EntriesLead DEF Walkable
<1>3. ASSUME NEW x \in DOMAIN Entries(d), Above(Append(w, Entries(d)[x].name), p)
      PROVE  Above(w, p) /\ Len(w) < Len(p)
    BY <1>1, <1>2, <1>3, AboveFacts
<1>4. ASSUME Above(w, p), Len(w) < Len(p)
      PROVE  \E x \in DOMAIN Entries(d) : Above(Append(w, Entries(d)[x].name), p)
    <2>1. Above(start, w)
        BY <1>1, AboveFacts DEF OnTheWay, Descends, Above
    <2>2. \E x \in DOMAIN Entries(Resolve(w).to) :
              /\ Entries(Resolve(w).to)[x].name = p[Len(w) + 1]
              /\ Above(Append(w, p[Len(w) + 1]), p)
        BY ONLY <1>1, <1>4, <2>1, DescendsByEntry, Walkable(image), start \in Paths, Descends(start, p)
    <2> QED BY <1>1, <2>2
<1> QED BY <1>3, <1>4

LEMMA AllButTheLast ==
    ASSUME NEW S, NEW s \in Seq(S), s # <<>>
    PROVE  LET rest == SubSeq(s, 1, Len(s) - 1)
           IN  /\ rest \in Seq(S) /\ DOMAIN rest = 1..(Len(s) - 1)
               /\ \A k \in DOMAIN rest : rest[k] = s[k] /\ k \in DOMAIN s /\ k # Len(s)
OBVIOUS

(* The directory pending last is listed.                                   *)
LEMMA VisitKeeps ==
    ASSUME Walkable(image), NEW start \in Paths, NEW pattern, NEW pend, NEW w, NEW prt,
           Searching(start, pattern, pend, <<>>, w, prt), pend # <<>>
    PROVE  LET at == pend[Len(pend)]
           IN  Searching(start, pattern, SubSeq(pend, 1, Len(pend) - 1), Entries(at.dir), at.path, prt)
<1> DEFINE at == pend[Len(pend)]
           d == at.dir
           v == at.path
           list == Entries(d)
           rest == SubSeq(pend, 1, Len(pend) - 1)
<1>1. /\ pend \in Seq([dir : DOMAIN image.dirs, path : Paths]) /\ Len(pend) \in DOMAIN pend
      /\ DOMAIN pend = 1..Len(pend) /\ Len(pend) \in Nat
      /\ \A k \in DOMAIN pend : OnTheWay(start, pend[k].dir, pend[k].path)
    BY DEF Searching, Waiting
<1>2. OnTheWay(start, d, v) /\ v \in Paths /\ d \in DOMAIN image.dirs
    BY <1>1 DEF OnTheWay
<1>3. /\ rest \in Seq([dir : DOMAIN image.dirs, path : Paths]) /\ DOMAIN rest = 1..(Len(pend) - 1)
      /\ \A k \in DOMAIN rest : rest[k] = pend[k] /\ k \in DOMAIN pend /\ k # Len(pend)
    BY ONLY <1>1, pend # <<>>, AllButTheLast
<1> HIDE DEF rest
<1>4. Waiting(start, rest)
    BY <1>1, <1>3 DEF Waiting
<1>5. /\ list \in Seq(EntryRec)
      /\ \A x, y \in DOMAIN list : list[x].name = list[y].name => x = y
      /\ \A x \in DOMAIN list : list[x].name \in Seq(STRING)
    <2>1. list \in Seq(EntryRec) /\ \A x, y \in DOMAIN list : list[x].name = list[y].name => x = y
        BY <1>2 DEF Walkable, NamesLead, Entries, EntryRec
    <2>2. \A x \in DOMAIN list : list[x].name \in Seq(STRING)
        BY <1>2, EntriesLead DEF Walkable
    <2> QED BY <2>1, <2>2
<1>6. LeftOf(start, list, v)
    BY <1>2, <1>5 DEF LeftOf
<1>7. \A k, l \in DOMAIN pend : k # l => ~Above(pend[k].path, pend[l].path)
    BY DEF Searching, Apart
<1>8. Apart(rest, list, v)
    <2>1. \A k, l \in DOMAIN rest : k # l => ~Above(rest[k].path, rest[l].path)
        BY <1>3, <1>7
    <2>2. ASSUME NEW k \in DOMAIN rest, NEW x \in DOMAIN list
          PROVE  /\ ~Above(rest[k].path, Append(v, list[x].name))
                 /\ ~Above(Append(v, list[x].name), rest[k].path)
        <3> DEFINE q == rest[k].path
        <3>1. q \in Paths /\ ~Above(q, v) /\ ~Above(v, q)
            BY <1>1, <1>3, <1>7 DEF OnTheWay
        <3>2. list[x].name \in Seq(STRING)
            BY <1>5
        <3> HIDE DEF q, list, v
        <3> QED BY <1>2, <3>1, <3>2, AboveFacts DEF q
    <2> HIDE DEF list, v
    <2> QED BY <2>1, <2>2 DEF Apart
<1>9. ASSUME NEW p, Descends(start, p)
      PROVE  Ahead(rest, list, v, p) <=> Ahead(pend, <<>>, w, p)
    <2>1. (Above(v, p) /\ Len(v) < Len(p)) <=> \E x \in DOMAIN list : Above(Append(v, list[x].name), p)
        BY <1>2, <1>9, BelowAnEntry
    <2> DEFINE Under(k) == Above(pend[k].path, p) /\ Len(pend[k].path) < Len(p)
    <2>2. (\E k \in DOMAIN pend : Under(k)) <=> (\E k \in DOMAIN rest : Under(k)) \/ Under(Len(pend))
        <3>1. \A k \in DOMAIN pend : k \in DOMAIN rest \/ k = Len(pend)
            BY <1>1, <1>3
        <3> HIDE DEF Under
        <3> QED BY <1>1, <1>3, <3>1
    <2>3. (\E k \in DOMAIN rest : Under(k)) <=>
              \E k \in DOMAIN rest : Above(rest[k].path, p) /\ Len(rest[k].path) < Len(p)
        BY <1>3
    <2>4. DOMAIN <<>> = {}
        OBVIOUS
    <2> HIDE DEF list
    <2> QED BY <2>1, <2>2, <2>3, <2>4 DEF Ahead
<1>10. PrintedSoFar(start, pattern, rest, list, v, prt)
    <2>1. PrintedSoFar(start, pattern, pend, <<>>, w, prt)
        BY DEF Searching
    <2> HIDE DEF list, v
    <2> QED BY <1>9, <2>1 DEF PrintedSoFar, Sought
<1> QED BY <1>4, <1>6, <1>8, <1>10 DEF Searching, rest

LEMMA OneMoreOnce ==
    ASSUME NEW S, NEW s \in Seq(S), NEW r \in S, IsInjective(s), r \notin Range(s)
    PROVE  /\ Append(s, r) \in Seq(S) /\ IsInjective(Append(s, r))
           /\ \A p : p \in Range(Append(s, r)) <=> p \in Range(s) \/ p = r
<1> DEFINE t == Append(s, r)
<1>1. /\ t \in Seq(S) /\ DOMAIN t = 1..(Len(s) + 1) /\ DOMAIN s = 1..Len(s) /\ t[Len(s) + 1] = r
      /\ \A k \in DOMAIN s : t[k] = s[k]
      /\ \A k \in DOMAIN t : k = Len(s) + 1 \/ k \in DOMAIN s
      /\ \A k \in DOMAIN s : k \in DOMAIN t
      /\ Len(s) + 1 \in DOMAIN t
    OBVIOUS
<1> HIDE DEF t
<1>2. \A k \in DOMAIN s : s[k] # r
    BY DEF Range
<1>3. IsInjective(t)
    BY <1>1, <1>2 DEF IsInjective
<1>4. \A p : p \in Range(t) <=> p \in Range(s) \/ p = r
    BY <1>1 DEF Range
<1> QED BY <1>1, <1>3, <1>4 DEF t

(* The entry that is next, where it lies and what follows.                 *)
NextEntry(start, list, w, e, r, rest) ==
    /\ list # <<>> /\ e = Head(list) /\ rest = Tail(list) /\ r = Append(w, e.name)
    /\ LeftOf(start, list, w)

LEMMA NextEntryFacts ==
    ASSUME Walkable(image), NEW start \in Paths, NEW list, NEW w, NEW e, NEW r, NEW rest,
           NextEntry(start, list, w, e, r, rest)
    PROVE  /\ w \in Paths /\ r \in Paths /\ e.name \in Seq(STRING) /\ r[Len(r)] = e.name
           /\ Resolve(r) = [dir |-> e.dir, to |-> e.to]
           /\ e.dir => e.to \in DOMAIN image.dirs
           /\ e.name \notin Dots => Descends(start, r)
           /\ e.name \in Dots => \A p : Descends(start, p) => ~Above(r, p)
           /\ LeftOf(start, rest, w)
           /\ \A x \in DOMAIN rest : rest[x].name \in Seq(STRING) /\ rest[x].name # e.name
<1>1. /\ list \in Seq(EntryRec) /\ list # <<>> /\ e = list[1] /\ r = Append(w, e.name) /\ rest = Tail(list)
      /\ \A x, y \in DOMAIN list : list[x].name = list[y].name => x = y
    BY DEF NextEntry, LeftOf
<1>2. PICK d \in DOMAIN image.dirs :
          OnTheWay(start, d, w) /\ \A x \in DOMAIN list : \E y \in DOMAIN Entries(d) : list[x] = Entries(d)[y]
    BY DEF NextEntry, LeftOf
<1>3. /\ rest \in Seq(EntryRec) /\ 1 \in DOMAIN list
      /\ \A x \in DOMAIN rest : x + 1 \in DOMAIN list /\ rest[x] = list[x + 1] /\ x + 1 # 1 /\ x \in Nat
      /\ \A x \in DOMAIN list : x = 1 \/ (x - 1 \in DOMAIN rest /\ rest[x - 1] = list[x])
    BY <1>1
<1>4. PICK y \in DOMAIN Entries(d) : e = Entries(d)[y]
    BY <1>1, <1>2, <1>3
<1>5. \A x \in DOMAIN list : list[x].name \in Seq(STRING)
    <2> TAKE x \in DOMAIN list
    <2>1. list[x] \in EntryRec
        BY <1>1, AnElement
    <2> QED BY <2>1 DEF EntryRec
<1>6. w \in Paths /\ e.name \in Seq(STRING) /\ r \in Paths /\ r[Len(r)] = e.name
    <2>1. w \in Paths /\ e.name \in Seq(STRING)
        BY <1>1, <1>2, <1>3, <1>5 DEF OnTheWay
    <2> QED BY <1>1, <2>1 DEF Paths
<1>7. /\ Resolve(r) = [dir |-> e.dir, to |-> e.to]
      /\ e.name \notin Dots => Descends(start, r)
    <2>1. w = start \/ Descends(start, w)
        BY <1>2 DEF OnTheWay
    <2>2. Resolve(w) = [dir |-> TRUE, to |-> d]
        BY <1>2 DEF OnTheWay
    <2> QED BY ONLY <1>1, <1>4, <1>6, <2>1, <2>2, EntriesDescend, Walkable(image), start \in Paths
<1>8. e.dir => e.to \in DOMAIN image.dirs
    BY <1>4, EntriesLead
<1>9. ASSUME e.name \in Dots, NEW p, Descends(start, p), Above(r, p) PROVE FALSE
    <2>1. p \in Paths /\ Above(w, p) /\ Len(w) < Len(p) /\ p[Len(w) + 1] = e.name
        <3>1. PICK name \in Seq(STRING) : name = e.name
            BY <1>6
        <3>2. p \in Paths /\ w \in Paths /\ Above(Append(w, name), p)
            BY <1>1, <1>6, <1>9, <3>1 DEF Descends
        <3>3. Above(w, p) /\ Len(w) < Len(p) /\ p[Len(w) + 1] = name
            BY ONLY <3>2, name \in Seq(STRING), AboveFacts
        <3> QED BY ONLY <3>1, <3>2, <3>3
    <2>2. Len(start) <= Len(w) /\ Len(start) \in Nat /\ Len(w) \in Nat /\ Len(p) \in Nat
        BY <1>2, <2>1 DEF OnTheWay, Descends, Paths
    <2>3. Len(w) + 1 \in (Len(start) + 1)..Len(p)
        BY <2>1, <2>2
    <2> QED BY <1>9, <2>1, <2>3 DEF Descends
<1>10. LeftOf(start, rest, w)
    <2>1. \A x, z \in DOMAIN rest : rest[x].name = rest[z].name => x = z
        <3> TAKE x, z \in DOMAIN rest
        <3> HAVE rest[x].name = rest[z].name
        <3>1. x + 1 = z + 1
            BY <1>1, <1>3
        <3> QED BY <1>3, <3>1
    <2>2. \A x \in DOMAIN rest : \E z \in DOMAIN Entries(d) : rest[x] = Entries(d)[z]
        BY <1>2, <1>3
    <2> QED BY <1>2, <1>3, <2>1, <2>2 DEF LeftOf
<1>11. \A x \in DOMAIN rest : rest[x].name \in Seq(STRING) /\ rest[x].name # e.name
    BY <1>1, <1>3, <1>5
<1> QED BY <1>6, <1>7, <1>8, <1>9, <1>10, <1>11

(* What is pending and what is printed once the entry e, at the path r,    *)
(* was looked at.                                                          *)
PendingAfter(pend, e, r) ==
    IF e.name \notin Dots /\ e.dir THEN Append(pend, [dir |-> e.to, path |-> r]) ELSE pend
PrintedAfter(pattern, prt, e, r) ==
    IF e.name \notin Dots /\ NameFits(pattern, e.name) THEN Append(prt, r) ELSE prt

(* The entry's own path is no longer ahead, and no other is.               *)
LEMMA AheadAfter ==
    ASSUME Walkable(image), NEW start \in Paths, NEW pend, Waiting(start, pend),
           NEW list, NEW w, NEW e, NEW r, NEW rest,
           NextEntry(start, list, w, e, r, rest), Apart(pend, list, w)
    PROVE  /\ ~Ahead(PendingAfter(pend, e, r), rest, w, r)
           /\ \A p : Descends(start, p) =>
                 (Ahead(pend, list, w, p) <=>
                     p = r \/ Ahead(PendingAfter(pend, e, r), rest, w, p))
<1> DEFINE after == PendingAfter(pend, e, r)
           place == [dir |-> e.to, path |-> r]
           Under(s, p) == \E k \in DOMAIN s : Above(s[k].path, p) /\ Len(s[k].path) < Len(p)
           Listing(s, p) == \E x \in DOMAIN s : Above(Append(w, s[x].name), p)
           real == e.name \notin Dots
<1>1. /\ w \in Paths /\ r \in Paths /\ e.name \in Seq(STRING) /\ r = Append(w, e.name)
      /\ Resolve(r) = [dir |-> e.dir, to |-> e.to]
      /\ real => Descends(start, r)
      /\ ~real => \A p : Descends(start, p) => ~Above(r, p)
      /\ \A x \in DOMAIN rest : rest[x].name \in Seq(STRING) /\ rest[x].name # e.name
    <2>1. r = Append(w, e.name)
        BY DEF NextEntry
    <2>2. /\ w \in Paths /\ r \in Paths /\ e.name \in Seq(STRING)
          /\ Resolve(r) = [dir |-> e.dir, to |-> e.to]
          /\ e.name \notin Dots => Descends(start, r)
          /\ e.name \in Dots => \A p : Descends(start, p) => ~Above(r, p)
          /\ \A x \in DOMAIN rest : rest[x].name \in Seq(STRING) /\ rest[x].name # e.name
        BY NextEntryFacts
    <2> QED BY <2>1, <2>2
<1>2. ASSUME NEW p
      PROVE  /\ Ahead(pend, list, w, p) <=> Under(pend, p) \/ Listing(list, p)
             /\ Ahead(after, rest, w, p) <=> Under(after, p) \/ Listing(rest, p)
    BY DEF Ahead
<1>3. ASSUME NEW p PROVE Listing(list, p) <=> Above(r, p) \/ Listing(rest, p)
    <2>1. /\ e = list[1] /\ 1 \in DOMAIN list
          /\ \A x \in DOMAIN rest : x + 1 \in DOMAIN list /\ rest[x] = list[x + 1]
          /\ \A x \in DOMAIN list : x = 1 \/ (x - 1 \in DOMAIN rest /\ rest[x - 1] = list[x])
        BY DEF NextEntry, LeftOf
    <2> QED BY <1>1, <2>1
<1>4. ASSUME NEW p
      PROVE  Under(after, p) <=> Under(pend, p) \/ (real /\ e.dir /\ Above(r, p) /\ Len(r) < Len(p))
    <2>1. CASE ~(real /\ e.dir)
        BY <2>1 DEF PendingAfter
    <2>2. CASE real /\ e.dir
        <3>1. after = Append(pend, place)
            BY <2>2 DEF PendingAfter
        <3>2. pend \in Seq([dir : DOMAIN image.dirs, path : Paths])
            BY DEF Waiting
        <3>3. /\ DOMAIN after = 1..(Len(pend) + 1) /\ DOMAIN pend = 1..Len(pend) /\ Len(pend) \in Nat
              /\ after[Len(pend) + 1] = place /\ \A k \in DOMAIN pend : after[k] = pend[k]
            BY <3>1, <3>2
        <3>4. /\ \A k \in DOMAIN after : k = Len(pend) + 1 \/ k \in DOMAIN pend
              /\ \A k \in DOMAIN pend : k \in DOMAIN after
              /\ Len(pend) + 1 \in DOMAIN after
            BY <3>3
        <3>5. place.path = r
            OBVIOUS
        <3> HIDE DEF after, place
        <3> QED BY <2>2, <3>3, <3>4, <3>5
    <2> QED BY <2>1, <2>2
<1> HIDE DEF after, Under, Listing
<1>5. ~Under(pend, r)
    <2>1. \A k \in DOMAIN pend : ~Above(pend[k].path, Append(w, e.name))
        <3>1. 1 \in DOMAIN list /\ e = list[1]
            BY DEF NextEntry, LeftOf
        <3> QED BY <3>1 DEF Apart
    <2> QED BY <1>1, <2>1 DEF Under
<1>6. ~Listing(rest, r)
    <2> SUFFICES ASSUME NEW x \in DOMAIN rest, Above(Append(w, rest[x].name), r) PROVE FALSE
        BY DEF Listing
    <2>1. r[Len(w) + 1] = rest[x].name
        <3>1. PICK n \in Seq(STRING) : n = rest[x].name
            BY <1>1
        <3>2. Above(Append(w, n), r) /\ w \in Paths /\ r \in Paths
            BY <1>1, <3>1
        <3>3. Above(Append(w, n), r) => Above(w, r) /\ Len(w) < Len(r) /\ r[Len(w) + 1] = n
            BY ONLY <3>2, AboveFacts, n \in Seq(STRING)
        <3> QED BY ONLY <3>1, <3>2, <3>3
    <2>2. r[Len(w) + 1] = e.name
        BY <1>1 DEF Paths
    <2> QED BY <1>1, <2>1, <2>2
<1>7. Above(r, r) /\ Len(r) \in Nat
    BY <1>1 DEF Above, Paths
<1>8. ~Ahead(after, rest, w, r)
    BY <1>2, <1>4, <1>5, <1>6, <1>7
<1>9. ASSUME NEW p, Descends(start, p)
      PROVE  Ahead(pend, list, w, p) <=> p = r \/ Ahead(after, rest, w, p)
    <2>1. p \in Paths /\ Len(p) \in Nat
        BY <1>9 DEF Descends, Paths
    <2>2. CASE ~real
        <3>1. ~Above(r, p)
            BY <1>1, <1>9, <2>2
        <3> QED BY <1>2, <1>3, <1>4, <1>7, <2>2, <3>1
    <2>3. CASE real /\ Above(r, p) /\ p # r
        <3>1. Len(r) < Len(p)
            <4>1. Len(r) <= Len(p) /\ Len(r) # Len(p)
                <5>1. r \in Paths /\ p \in Paths /\ Above(r, p) /\ p # r
                    BY <1>1, <2>1, <2>3
                <5> QED BY ONLY <5>1, AboveOrder
            <4> QED BY <1>7, <2>1, <4>1
        <3>2. IsDirectory(r)
            <4>1. Above(start, r)
                BY <1>1, <2>3 DEF Descends
            <4> QED BY ONLY <1>1, <1>9, <2>3, <3>1, <4>1, DescendsByEntry, Walkable(image), start \in Paths
        <3>3. e.dir
            BY <1>1, <3>2 DEF IsDirectory
        <3> QED BY <1>2, <1>3, <1>4, <2>3, <3>1, <3>3
    <2>4. CASE real /\ ~Above(r, p)
        BY <1>2, <1>3, <1>4, <1>7, <2>4
    <2>5. CASE p = r
        BY <1>2, <1>3, <1>7, <2>5
    <2> QED BY <2>2, <2>3, <2>4, <2>5
<1> QED BY <1>8, <1>9 DEF after

LEMMA PendingKeeps ==
    ASSUME Walkable(image), NEW start \in Paths, NEW pend, Waiting(start, pend),
           NEW list, NEW w, NEW e, NEW r, NEW rest,
           NextEntry(start, list, w, e, r, rest), Apart(pend, list, w)
    PROVE  /\ Waiting(start, PendingAfter(pend, e, r))
           /\ Apart(PendingAfter(pend, e, r), rest, w)
<1> DEFINE after == PendingAfter(pend, e, r)
           place == [dir |-> e.to, path |-> r]
<1>1. /\ w \in Paths /\ r \in Paths /\ e.name \in Seq(STRING)
      /\ Resolve(r) = [dir |-> e.dir, to |-> e.to]
      /\ e.dir => e.to \in DOMAIN image.dirs
      /\ e.name \notin Dots => Descends(start, r)
      /\ \A x \in DOMAIN rest : rest[x].name \in Seq(STRING) /\ rest[x].name # e.name
    BY NextEntryFacts
<1>2. /\ r = Append(w, e.name) /\ 1 \in DOMAIN list /\ e = list[1]
      /\ \A x \in DOMAIN rest : x + 1 \in DOMAIN list /\ rest[x] = list[x + 1]
    BY DEF NextEntry, LeftOf
<1>3. /\ pend \in Seq([dir : DOMAIN image.dirs, path : Paths])
      /\ \A k \in DOMAIN pend : OnTheWay(start, pend[k].dir, pend[k].path)
    BY DEF Waiting
<1>4. ASSUME NEW k \in DOMAIN pend, NEW x \in DOMAIN rest
      PROVE  /\ ~Above(pend[k].path, Append(w, rest[x].name))
             /\ ~Above(Append(w, rest[x].name), pend[k].path)
    BY <1>2 DEF Apart
<1>5. ASSUME NEW k \in DOMAIN pend PROVE ~Above(pend[k].path, r) /\ ~Above(r, pend[k].path)
    BY <1>2 DEF Apart
<1>6. \A k, l \in DOMAIN pend : k # l => ~Above(pend[k].path, pend[l].path)
    BY DEF Apart
<1>7. CASE ~(e.name \notin Dots /\ e.dir)
    <2>1. after = pend
        BY <1>7 DEF PendingAfter
    <2>2. Apart(pend, rest, w)
        BY <1>4, <1>6 DEF Apart
    <2> QED BY <2>1, <2>2
<1>8. CASE e.name \notin Dots /\ e.dir
    <2>1. after = Append(pend, place) /\ place.path = r /\ place.dir = e.to
        BY <1>8 DEF PendingAfter
    <2>2. place \in [dir : DOMAIN image.dirs, path : Paths]
        BY <1>1, <1>8
    <2>3. /\ after \in Seq([dir : DOMAIN image.dirs, path : Paths])
          /\ \A k \in DOMAIN after : (k = Len(pend) + 1 /\ after[k] = place) \/ (k \in DOMAIN pend /\ after[k] = pend[k])
        BY <1>3, <2>1, <2>2
    <2>4. OnTheWay(start, e.to, r)
        BY <1>1, <1>8 DEF OnTheWay
    <2> HIDE DEF after, place
    <2>5. \A k \in DOMAIN after : OnTheWay(start, after[k].dir, after[k].path)
        BY <1>3, <2>1, <2>3, <2>4
    <2>6. \A k, l \in DOMAIN after : k # l => ~Above(after[k].path, after[l].path)
        BY <1>5, <1>6, <2>1, <2>3
    <2>7. ASSUME NEW x \in DOMAIN rest
          PROVE  ~Above(r, Append(w, rest[x].name)) /\ ~Above(Append(w, rest[x].name), r)
        <3>1. PICK n \in Seq(STRING) : n = rest[x].name /\ n # e.name
            BY <1>1
        <3>2. PICK s \in Paths : s = Append(w, n)
            BY <1>1, AboveFacts
        <3>3. /\ s \in Seq(Seq(STRING)) /\ r \in Seq(Seq(STRING)) /\ w \in Seq(Seq(STRING))
              /\ Len(s) = Len(w) + 1 /\ Len(r) = Len(w) + 1
              /\ s[Len(w) + 1] = n /\ r[Len(w) + 1] = e.name
            BY <1>1, <1>2, <3>2 DEF Paths
        <3>4. Len(w) + 1 \in 1..Len(s) /\ Len(w) + 1 \in 1..Len(r)
            BY <3>3
        <3>5. ~Above(r, s) /\ ~Above(s, r)
            BY <3>1, <3>3, <3>4 DEF Above
        <3> QED BY <3>1, <3>2, <3>5
    <2>8. ASSUME NEW k \in DOMAIN after, NEW x \in DOMAIN rest
          PROVE  /\ ~Above(after[k].path, Append(w, rest[x].name))
                 /\ ~Above(Append(w, rest[x].name), after[k].path)
        BY <1>4, <2>1, <2>3, <2>7
    <2>9. Waiting(start, after)
        BY <2>3, <2>5 DEF Waiting
    <2>10. Apart(after, rest, w)
        BY <2>6, <2>8 DEF Apart
    <2> QED BY <2>9, <2>10 DEF after
<1> QED BY <1>7, <1>8

(* The walk goes on with the entry next in the listing.                    *)
LEMMA EntryKeeps ==
    ASSUME Walkable(image), NEW start \in Paths, NEW pattern, NEW pend, NEW list, NEW w, NEW prt,
           Searching(start, pattern, pend, list, w, prt), NEW e, NEW r, NEW rest,
           NextEntry(start, list, w, e, r, rest)
    PROVE  Searching(start, pattern, PendingAfter(pend, e, r), rest, w, PrintedAfter(pattern, prt, e, r))
<1> DEFINE after == PendingAfter(pend, e, r)
           now == PrintedAfter(pattern, prt, e, r)
<1>1. /\ Waiting(start, pend) /\ Apart(pend, list, w)
      /\ prt \in Seq(Paths) /\ IsInjective(prt)
      /\ \A p \in Paths : p \in Range(prt) <=> Sought(start, pattern, p) /\ ~Ahead(pend, list, w, p)
    BY DEF Searching, PrintedSoFar
<1>2. Waiting(start, after) /\ Apart(after, rest, w)
    BY <1>1, PendingKeeps
<1>3. /\ ~Ahead(after, rest, w, r)
      /\ \A p : Descends(start, p) => (Ahead(pend, list, w, p) <=> p = r \/ Ahead(after, rest, w, p))
    BY <1>1, AheadAfter
<1>4. /\ r \in Paths /\ r[Len(r)] = e.name /\ LeftOf(start, rest, w)
      /\ e.name \notin Dots => Descends(start, r)
      /\ e.name \in Dots => \A p : Descends(start, p) => ~Above(r, p)
    BY NextEntryFacts
<1>5. Above(r, r)
    BY <1>4 DEF Above, Paths
<1>6. Descends(start, r) <=> e.name \notin Dots
    BY <1>4, <1>5
<1> HIDE DEF after
<1>7. CASE e.name \notin Dots /\ NameFits(pattern, e.name)
    <2>1. now = Append(prt, r)
        BY <1>7 DEF PrintedAfter
    <2>2. Sought(start, pattern, r)
        BY <1>4, <1>7 DEF Sought
    <2>3. r \notin Range(prt)
        BY <1>1, <1>3, <1>4, <1>6, <1>7
    <2>4. /\ now \in Seq(Paths) /\ IsInjective(now)
          /\ \A p : p \in Range(now) <=> p \in Range(prt) \/ p = r
        BY <1>1, <1>4, <2>1, <2>3, OneMoreOnce
    <2>5. \A p \in Paths : p \in Range(now) <=> Sought(start, pattern, p) /\ ~Ahead(after, rest, w, p)
        BY <1>1, <1>3, <2>2, <2>4 DEF Sought
    <2> HIDE DEF now
    <2>6. PrintedSoFar(start, pattern, after, rest, w, now)
        BY <2>4, <2>5 DEF PrintedSoFar
    <2> QED BY <1>2, <1>4, <2>6 DEF Searching, after, now
<1>8. CASE ~(e.name \notin Dots /\ NameFits(pattern, e.name))
    <2>1. now = prt
        BY <1>8 DEF PrintedAfter
    <2>2. ~Sought(start, pattern, r)
        BY <1>4, <1>6, <1>8 DEF Sought
    <2>3. \A p \in Paths : p \in Range(prt) <=> Sought(start, pattern, p) /\ ~Ahead(after, rest, w, p)
        BY <1>1, <1>3, <2>2 DEF Sought
    <2>4. PrintedSoFar(start, pattern, after, rest, w, prt)
        BY <1>1, <2>3 DEF PrintedSoFar
    <2> QED BY <1>2, <1>4, <2>1, <2>4 DEF Searching, after
<1> QED BY <1>7, <1>8

(* The walk begins with the start alone, and ends when nothing is pending. *)
LEMMA WalkStarts ==
    ASSUME Walkable(image), NEW start \in Paths, IsDirectory(start), NEW pattern, NEW w
    PROVE  Searching(start, pattern, <<[dir |-> Resolve(start).to, path |-> start]>>, <<>>, w, <<>>)
<1> DEFINE place == [dir |-> Resolve(start).to, path |-> start]
<1>1. OnTheWay(start, place.dir, place.path)
    <2>1. Resolve(start) \in Destinations
        BY PathsLead DEF Walkable, Paths
    <2> QED BY <2>1 DEF OnTheWay, IsDirectory, Destinations
<1>2. place \in [dir : DOMAIN image.dirs, path : Paths] /\ place.path = start
    BY <1>1 DEF OnTheWay
<1> HIDE DEF place
<1>3. /\ <<place>> \in Seq([dir : DOMAIN image.dirs, path : Paths]) /\ DOMAIN <<place>> = {1}
      /\ <<place>>[1] = place
    BY <1>2
<1>4. Waiting(start, <<place>>)
    BY <1>1, <1>3 DEF Waiting
<1>5. LeftOf(start, <<>>, w) /\ Apart(<<place>>, <<>>, w)
    BY <1>3 DEF LeftOf, Apart
<1>6. PrintedSoFar(start, pattern, <<place>>, <<>>, w, <<>>)
    <2>1. <<>> \in Seq(Paths) /\ IsInjective(<<>>) /\ Range(<<>>) = {}
        BY DEF IsInjective, Range
    <2>2. \A p : Descends(start, p) => Ahead(<<place>>, <<>>, w, p)
        BY <1>2, <1>3 DEF Descends, Ahead
    <2> QED BY <2>1, <2>2 DEF PrintedSoFar, Sought
<1> QED BY <1>4, <1>5, <1>6 DEF Searching, place

LEMMA WalkEnds ==
    ASSUME NEW start, NEW pattern, NEW w, NEW prt, Searching(start, pattern, <<>>, <<>>, w, prt)
    PROVE  /\ prt \in Seq(Paths) /\ IsInjective(prt)
           /\ \A p \in Paths : p \in Range(prt) <=> Sought(start, pattern, p)
<1>1. \A p : ~Ahead(<<>>, <<>>, w, p)
    BY DEF Ahead
<1> QED BY <1>1 DEF Searching, PrintedSoFar

(* While the image stays what was found stays so.                          *)
LEMMA SearchingStays ==
    ASSUME UNCHANGED image
    PROVE  /\ \A start : IsDirectory(start)' <=> IsDirectory(start)
           /\ \A start, pattern, p : Sought(start, pattern, p)' <=> Sought(start, pattern, p)
           /\ \A start, pattern, pend, list, w, prt :
                 Searching(start, pattern, pend, list, w, prt) => Searching(start, pattern, pend, list, w, prt)'
<1>1. ASSUME NEW p PROVE Resolve(p)' = Resolve(p)
    BY DEF Resolve, Entries
<1>2. ASSUME NEW start, NEW p PROVE Descends(start, p)' <=> Descends(start, p)
    BY <1>1 DEF Descends
<1>3. ASSUME NEW start, NEW d, NEW p PROVE OnTheWay(start, d, p)' <=> OnTheWay(start, d, p)
    BY <1>1, <1>2 DEF OnTheWay
<1>4. ASSUME NEW start, NEW pattern, NEW p PROVE Sought(start, pattern, p)' <=> Sought(start, pattern, p)
    BY <1>2 DEF Sought
<1>5. ASSUME NEW start PROVE IsDirectory(start)' <=> IsDirectory(start)
    BY <1>1 DEF IsDirectory
<1>6. ASSUME NEW start, NEW pattern, NEW pend, NEW list, NEW w, NEW prt,
             Searching(start, pattern, pend, list, w, prt)
      PROVE  Searching(start, pattern, pend, list, w, prt)'
    <2>1. Waiting(start, pend)'
        BY <1>3, <1>6 DEF Searching, Waiting
    <2>2. LeftOf(start, list, w)'
        BY <1>3, <1>6 DEF Searching, LeftOf, Entries
    <2>3. PrintedSoFar(start, pattern, pend, list, w, prt)'
        BY <1>4, <1>6 DEF Searching, PrintedSoFar
    <2> QED BY <1>6, <2>1, <2>2, <2>3 DEF Searching
<1> QED BY <1>4, <1>5, <1>6

(* What parse_cli makes of the documented forms is what they mean, but for *)
(* the two that it refuses.                                                *)
Refused(c) == DashIsTheImage(c) \/ PatternIsAFile(c)

Understood ==
    /\ cli.path = call.path /\ cli.path \in Paths
    /\ cli.pattern = None <=> call.pattern = None
    /\ call.pattern # None => call.pattern \in Seq(STRING) /\ cli.pattern.name = call.pattern

(* An image, a path and a pattern that say what was meant.                 *)
SaysWhatIsMeant(c, opened, path, pattern) ==
    /\ opened # None /\ (~c.stdin => opened.is = "image")
    /\ path \in {None} \cup ReadArg /\ c.path = IF path = None THEN <<>> ELSE path.path
    /\ pattern = None <=> c.pattern = None
    /\ c.pattern # None => c.pattern \in Seq(STRING) /\ pattern.name = c.pattern

LEMMA AnArgument ==
    ASSUME NEW a \in ReadArg
    PROVE  /\ a # None /\ a.name \in Seq(STRING) /\ a.path \in Paths
           /\ IsFile(a) <=> a.is \in {"image", "file"}
<1>1. DOMAIN a = {"is", "path", "name"} /\ DOMAIN None = {}
    BY DEF ReadArg, None
<1>2. a # None
    BY <1>1
<1> QED BY <1>2 DEF ReadArg, IsFile, Paths

LEMMA DocumentedIsUnderstood ==
    ASSUME NEW c \in ReadCalls, Documented(c)
    PROVE  LET parsed == Positionals(c)
           IN  \/ /\ Refused(c) /\ ~c.stdin
                  /\ parsed[1] # None /\ parsed[1].is # "image"
               \/ ~Refused(c) /\ SaysWhatIsMeant(c, parsed[1], parsed[2], parsed[3])
<1> DEFINE p == c.positional
           inline == c.inline
           pattern == c.pattern
<1>1. p \in Seq(ReadArg) /\ Len(p) \in Nat /\ inline \in {None} \cup ReadArg
    BY ReadCallsAssumption
<1>2. StdinArg # None
    <2>1. DOMAIN StdinArg = {"is", "path", "name"} /\ DOMAIN None = {}
        BY DEF StdinArg, None
    <2> QED BY <2>1
<1>3. \A k \in 1..3 : k <= Len(p) => p[k] \in ReadArg
    BY <1>1
<1>4. \A k \in 1..3 :
          /\ At(p, k) = IF k <= Len(p) THEN p[k] ELSE None
          /\ At(p, k) \in {None} \cup ReadArg
    BY <1>3 DEF At
<1>5. \A k \in 1..3 : k <= Len(p) =>
          /\ p[k] # None /\ p[k].name \in Seq(STRING)
          /\ IsFile(p[k]) <=> p[k].is \in {"image", "file"}
    BY <1>3, AnArgument
<1>6. p # <<>> <=> Len(p) >= 1
    BY <1>1
<1>7. \A k \in 1..3 : c.path = (IF k <= Len(p) THEN p[k].path ELSE <<>>)
          => c.path = IF At(p, k) = None THEN <<>> ELSE At(p, k).path
    BY <1>4, <1>5
<1>8. Bare(c) <=> inline = None
    BY DEF Documented, Bare
<1>9. ~Bare(c) => pattern # None /\ pattern \in Seq(STRING) /\ inline.name = pattern
    <2>1. ~Bare(c) => inline.name = pattern /\ pattern # None
        BY DEF Documented
    <2>2. ~Bare(c) => inline.name \in Seq(STRING)
        BY <1>1, <1>8, AnArgument
    <2> QED BY <2>1, <2>2
<1>10. CASE c.stdin
    <2>1. ~Refused(c)
        BY <1>10 DEF Refused, DashIsTheImage, PatternIsAFile
    <2>2. CASE Bare(c) /\ pattern = None
        <3>1. p = <<>> /\ c.path = IF 1 <= Len(p) THEN p[1].path ELSE <<>>
            BY <1>10, <2>2 DEF Documented
        <3>2. Positionals(c) = <<StdinArg, At(p, 1), inline>>
            BY <1>10, <3>1 DEF Positionals
        <3> HIDE DEF p, inline, pattern
        <3>3. SaysWhatIsMeant(c, StdinArg, At(p, 1), inline)
            BY <1>2, <1>4, <1>7, <1>8, <1>10, <2>2, <3>1 DEF SaysWhatIsMeant, pattern
        <3> QED BY <2>1, <3>2, <3>3
    <2>3. CASE Bare(c) /\ pattern # None
        <3>1. p # <<>> /\ p[1].name = pattern /\ c.path = IF 2 <= Len(p) THEN p[2].path ELSE <<>>
            BY <1>10, <2>3 DEF Documented
        <3>2. Positionals(c) = <<StdinArg, At(p, 2), p[1]>>
            BY <1>10, <2>3, <3>1 DEF Positionals
        <3> HIDE DEF p, inline, pattern
        <3>3. SaysWhatIsMeant(c, StdinArg, At(p, 2), p[1])
            BY <1>1, <1>2, <1>4, <1>5, <1>6, <1>7, <1>10, <2>3, <3>1 DEF SaysWhatIsMeant, pattern
        <3> QED BY <2>1, <3>2, <3>3
    <2>4. CASE ~Bare(c)
        <3>1. c.path = IF 1 <= Len(p) THEN p[1].path ELSE <<>>
            BY <1>10, <2>4 DEF Documented
        <3>2. Positionals(c) = <<StdinArg, At(p, 1), inline>>
            BY <1>10, <2>4 DEF Positionals
        <3> HIDE DEF p, inline, pattern
        <3>3. SaysWhatIsMeant(c, StdinArg, At(p, 1), inline)
            BY <1>2, <1>4, <1>7, <1>8, <1>9, <1>10, <2>4, <3>1 DEF SaysWhatIsMeant, pattern
        <3> QED BY <2>1, <3>2, <3>3
    <2> QED BY <2>2, <2>3, <2>4
<1>11. CASE ~c.stdin /\ Bare(c) /\ pattern = None
    <2>1. /\ 1 <= Len(p) /\ p[1] = c.image /\ c.image.is \in {"image", "stdin"}
          /\ 2 <= Len(p) => p[2].is # "image"
          /\ c.path = IF 2 <= Len(p) THEN p[2].path ELSE <<>>
        BY <1>11 DEF Documented
    <2>2. Positionals(c) = IF Len(p) >= 2 /\ ~IsFile(p[1]) THEN <<p[2], At(p, 3), p[1]>>
                           ELSE <<At(p, 1), At(p, 2), inline>>
        BY <1>11 DEF Positionals
    <2>3. Refused(c) <=> c.image.is = "stdin"
        BY <1>11 DEF Refused, DashIsTheImage, PatternIsAFile
    <2>4. IsFile(p[1]) <=> c.image.is = "image"
        BY <1>5, <2>1
    <2> HIDE DEF p, inline, pattern
    <2>5. CASE c.image.is = "image"
        <3>1. Positionals(c) = <<p[1], At(p, 2), inline>>
            BY <1>4, <2>1, <2>2, <2>4, <2>5
        <3>2. SaysWhatIsMeant(c, p[1], At(p, 2), inline)
            BY <1>4, <1>5, <1>7, <1>8, <1>11, <2>1, <2>5 DEF SaysWhatIsMeant, pattern
        <3> QED BY <2>3, <2>5, <3>1, <3>2
    <2>6. CASE c.image.is = "stdin"
        <3>1. Positionals(c)[1] = p[1] \/ (2 <= Len(p) /\ Positionals(c)[1] = p[2])
            BY <1>1, <1>4, <2>1, <2>2
        <3> QED BY <1>5, <1>11, <2>1, <2>3, <2>6, <3>1
    <2> QED BY <2>1, <2>5, <2>6
<1>12. CASE ~c.stdin /\ Bare(c) /\ pattern # None
    <2>1. /\ p # <<>> /\ p[1].name = pattern /\ p[1].is # "image"
          /\ 2 <= Len(p) /\ p[2] = c.image /\ c.image.is \in {"image", "stdin"}
          /\ c.path = IF 3 <= Len(p) THEN p[3].path ELSE <<>>
        BY <1>12 DEF Documented
    <2>2. Positionals(c) = IF ~IsFile(p[1]) THEN <<p[2], At(p, 3), p[1]>>
                           ELSE <<At(p, 1), At(p, 2), inline>>
        BY <1>1, <1>12, <2>1 DEF Positionals
    <2>3. Refused(c) <=> c.image.is = "stdin" \/ IsFile(p[1])
        BY <1>12 DEF Refused, DashIsTheImage, PatternIsAFile
    <2> HIDE DEF p, inline, pattern
    <2>4. CASE IsFile(p[1])
        <3>1. Positionals(c)[1] = p[1]
            BY <1>1, <1>4, <2>1, <2>2, <2>4
        <3> QED BY <1>1, <1>5, <1>12, <2>1, <2>3, <2>4, <3>1
    <2>5. CASE ~IsFile(p[1]) /\ c.image.is = "stdin"
        BY <1>5, <1>12, <2>1, <2>2, <2>3, <2>5
    <2>6. CASE ~IsFile(p[1]) /\ c.image.is = "image"
        <3>1. SaysWhatIsMeant(c, p[2], At(p, 3), p[1])
            BY <1>1, <1>4, <1>5, <1>7, <1>12, <2>1, <2>6 DEF SaysWhatIsMeant, pattern
        <3> QED BY <2>2, <2>3, <2>6, <3>1
    <2> QED BY <2>1, <2>4, <2>5, <2>6
<1>13. CASE ~c.stdin /\ ~Bare(c)
    <2>1. Positionals(c) = IF Len(p) >= 2 /\ ~IsFile(p[1]) /\ IsFile(p[2]) THEN <<p[2], p[1], inline>>
                           ELSE <<At(p, 1), At(p, 2), inline>>
        BY <1>13 DEF Positionals
    <2>2. Refused(c) <=> c.image.is = "stdin"
        BY <1>13 DEF Refused, DashIsTheImage, PatternIsAFile
    <2>3. \/ /\ 1 <= Len(p) /\ p[1] = c.image /\ c.image.is \in {"image", "stdin"}
             /\ 2 <= Len(p) => p[2].is # "image"
             /\ c.path = IF 2 <= Len(p) THEN p[2].path ELSE <<>>
          \/ /\ Len(p) >= 2 /\ ~IsFile(p[1]) /\ p[2] = c.image /\ c.image.is = "image"
             /\ c.path = p[1].path
        BY <1>13 DEF Documented
    <2> HIDE DEF p, inline, pattern
    <2>4. CASE Len(p) >= 2 /\ ~IsFile(p[1]) /\ p[2] = c.image /\ c.image.is = "image" /\ c.path = p[1].path
        <3>1. Positionals(c) = <<p[2], p[1], inline>>
            BY <1>1, <1>5, <2>1, <2>4
        <3>2. SaysWhatIsMeant(c, p[2], p[1], inline)
            BY <1>1, <1>3, <1>5, <1>8, <1>9, <1>13, <2>4 DEF SaysWhatIsMeant, pattern
        <3> QED BY <2>2, <2>4, <3>1, <3>2
    <2>5. CASE /\ 1 <= Len(p) /\ p[1] = c.image /\ c.image.is = "image"
               /\ c.path = IF 2 <= Len(p) THEN p[2].path ELSE <<>>
        <3>1. Positionals(c) = <<p[1], At(p, 2), inline>>
            BY <1>4, <1>5, <2>1, <2>5
        <3>2. SaysWhatIsMeant(c, p[1], At(p, 2), inline)
            BY <1>4, <1>5, <1>7, <1>8, <1>9, <1>13, <2>5 DEF SaysWhatIsMeant, pattern
        <3> QED BY <2>2, <2>5, <3>1, <3>2
    <2>6. CASE /\ 1 <= Len(p) /\ p[1] = c.image /\ c.image.is = "stdin"
               /\ 2 <= Len(p) => p[2].is # "image"
        <3>1. Positionals(c)[1] = p[1] \/ (2 <= Len(p) /\ Positionals(c)[1] = p[2])
            BY <1>1, <1>4, <2>1, <2>6
        <3> QED BY <1>5, <1>13, <2>2, <2>6, <3>1
    <2> QED BY <2>3, <2>4, <2>5, <2>6
<1> QED BY <1>10, <1>11, <1>12, <1>13

(* Where a search is: the arguments are understood, the walk goes on, and  *)
(* when it has ended everything sought is printed.                         *)
Meant == call # None /\ Documented(call)

Searched ==
    IF Refused(call) THEN read = "error" /\ printed = <<>>
    ELSE /\ Understood
         /\ IF IsDirectory(cli.path)
            THEN /\ read = "done" /\ printed \in Seq(Paths) /\ IsInjective(printed)
                 /\ \A p \in Paths : p \in Range(printed) <=> Sought(cli.path, cli.pattern, p)
            ELSE printed = <<>> /\ (read = "error" \/ PassesAsDirectory)

Walking ==
    /\ IsDirectory(cli.path)
    /\ Searching(cli.path, cli.pattern, pending, listing, within, printed)

FindInvariant ==
    /\ image \in Images
    /\ read = "idle" => call = None
    /\ read \in {"idle", "parsed"} => listing = <<>> /\ printed = <<>>
    /\ read \in {"parsed", "find", "cat"} /\ Meant => cli.operation = "find" /\ ~Refused(call) /\ Understood
    /\ read = "find" /\ Meant => Walking
    /\ read = "cat" => cli.operation = "cat"
    /\ read \in {"done", "error"} /\ Meant => Searched

LEMMA FoundIsExact ==
    ASSUME Walkable(image), FindInvariant
    PROVE  FindIsExact
<1> SUFFICES ASSUME read \in {"done", "error"}, Meant, ~Refused(call) PROVE FindIsExact
    BY DEF FindIsExact, FindInvariant, Searched, Meant, Refused
<1> DEFINE wanted == {p \in Below(call.path) : call.pattern = None \/ Glob(p[Len(p)], call.pattern)}
<1>1. Searched /\ Understood /\ call.path \in Paths /\ cli.path = call.path
    BY DEF FindInvariant, Searched, Understood
<1>2. CASE ~IsDirectory(call.path)
    BY <1>1, <1>2 DEF FindIsExact, IsDirectory, Searched, Refused
<1>3. CASE IsDirectory(call.path)
    <2>1. /\ read = "done" /\ printed \in Seq(Paths) /\ IsInjective(printed)
          /\ \A p \in Paths : p \in Range(printed) <=> Sought(call.path, cli.pattern, p)
        BY <1>1, <1>3 DEF Searched
    <2>2. Below(call.path) = {p \in Paths : Descends(call.path, p)}
        BY <1>1, BelowIs
    <2>3. ASSUME NEW p \in Paths, Descends(call.path, p), ~Starred(p)
          PROVE  NameFits(cli.pattern, p[Len(p)]) <=> call.pattern = None \/ Glob(p[Len(p)], call.pattern)
        <3> DEFINE name == p[Len(p)]
        <3>1. name \in Seq(STRING)
            <4>1. Len(p) \in DOMAIN p
                BY <1>1, <2>3 DEF Descends, Paths
            <4> QED BY <4>1, AnElement DEF Paths
        <3>2. Starless(name)
            BY <2>3, <3>1 DEF Starred, Starless, Range
        <3> HIDE DEF name
        <3>3. CASE call.pattern = None
            BY <1>1, <3>3 DEF NameFits, Understood
        <3>4. CASE call.pattern # None
            <4>1. call.pattern \in Seq(STRING) /\ cli.pattern.name = call.pattern /\ cli.pattern # None
                BY <1>1, <3>4 DEF Understood
            <4>2. PICK pattern \in Seq(STRING) : pattern = call.pattern
                BY <4>1
            <4>3. MatchesPattern(name, pattern) <=> Glob(name, pattern)
                BY <3>1, <3>2, MatcherIsGlob
            <4> QED BY <3>4, <4>1, <4>2, <4>3 DEF NameFits, name
        <3> QED BY <3>3, <3>4
    <2>4. \A p : p \in Range(printed) => p \in Paths
        BY <2>1 DEF Range
    <2>5. {p \in Range(printed) : ~Starred(p)} = {p \in wanted : ~Starred(p)}
        BY <2>1, <2>2, <2>3, <2>4 DEF Sought
    <2> QED BY <1>3, <2>1, <2>5 DEF FindIsExact, IsDirectory, Refused
<1> QED BY <1>2, <1>3

LEMMA FindIsParsed ==
    ASSUME FindInvariant, ParseCli, UNCHANGED image
    PROVE  FindInvariant'
<1>1. PICK c \in ReadCalls :
          /\ call' = c
          /\ cli' = [operation |-> Operation(c), also |-> c.also,
                     image |-> Positionals(c)[1], pattern |-> Positionals(c)[3],
                     path |-> IF Positionals(c)[2] = None THEN <<>> ELSE Positionals(c)[2].path]
          /\ read' = IF BadArguments(c, Positionals(c)[1]) THEN "error" ELSE "parsed"
    BY DEF ParseCli
<1>2. read = "idle" /\ listing' = listing /\ printed' = printed /\ image' = image
    BY DEF ParseCli, findVars
<1>3. listing = <<>> /\ printed = <<>> /\ read' \in {"parsed", "error"}
    BY <1>1, <1>2 DEF FindInvariant
<1>4. ASSUME Documented(c)
      PROVE  \/ Refused(c) /\ read' = "error"
             \/ ~Refused(c) /\ read' = "parsed" /\ cli'.operation = "find" /\ Understood'
    <2> DEFINE parsed == Positionals(c)
    <2>1. \/ Refused(c) /\ ~c.stdin /\ parsed[1] # None /\ parsed[1].is # "image"
          \/ ~Refused(c) /\ SaysWhatIsMeant(c, parsed[1], parsed[2], parsed[3])
        BY <1>4, DocumentedIsUnderstood
    <2>2. c.operations = <<"find">> /\ (Bare(c) <=> c.inline = None)
        BY <1>4 DEF Documented, Bare
    <2>3. c.inline # None => c.inline.name # <<>>
        BY <1>4, <2>2 DEF Documented, None
    <2>4. Operation(c) = "find" /\ Len(c.operations) = 1
        BY <2>2 DEF Operation
    <2> HIDE DEF parsed
    <2>5. CASE Refused(c)
        BY <1>1, <2>1, <2>5 DEF BadArguments, parsed
    <2>6. CASE ~Refused(c)
        <3>1. SaysWhatIsMeant(c, parsed[1], parsed[2], parsed[3])
            BY <2>1, <2>6
        <3>2. ~BadArguments(c, parsed[1])
            BY <2>3, <2>4, <3>1 DEF BadArguments, SaysWhatIsMeant
        <3>3. /\ cli'.path = c.path /\ cli'.pattern = parsed[3] /\ cli'.operation = "find"
              /\ read' = "parsed"
            BY <1>1, <2>4, <3>1, <3>2 DEF parsed, SaysWhatIsMeant
        <3>4. c.path \in Paths
            <4>1. <<>> \in Seq(Seq(STRING))
                OBVIOUS
            <4>2. parsed[2] \in ReadArg => parsed[2].path \in Paths
                BY AnArgument
            <4> QED BY <3>1, <4>1, <4>2 DEF SaysWhatIsMeant, Paths
        <3>5. /\ parsed[3] = None <=> c.pattern = None
              /\ c.pattern # None => c.pattern \in Seq(STRING) /\ parsed[3].name = c.pattern
            BY <3>1 DEF SaysWhatIsMeant
        <3> QED BY <1>1, <2>6, <3>3, <3>4, <3>5 DEF Understood
    <2> QED BY <2>5, <2>6
<1>5. Meant' => Documented(c)
    BY <1>1 DEF Meant
<1>6. Refused(call)' <=> Refused(c)
    BY <1>1 DEF Refused
<1>7. CASE Meant' /\ Refused(c)
    BY <1>2, <1>3, <1>4, <1>5, <1>6, <1>7 DEF FindInvariant, Searched
<1>8. CASE Meant' /\ ~Refused(c)
    BY <1>2, <1>3, <1>4, <1>5, <1>6, <1>8 DEF FindInvariant
<1>9. CASE ~Meant'
    BY <1>2, <1>3, <1>9 DEF FindInvariant
<1> QED BY <1>7, <1>8, <1>9

(* While the arguments and the image stay, so does what they mean.         *)
LEMMA MeaningStays ==
    ASSUME UNCHANGED <<image, call, cli>>
    PROVE  /\ (Meant' <=> Meant) /\ (Refused(call)' <=> Refused(call))
           /\ (Understood' <=> Understood)
           /\ (PassesAsDirectory' <=> PassesAsDirectory)
           /\ (IsDirectory(cli.path)' <=> IsDirectory(cli.path))
<1>1. Target' = Target
    BY DEF Target, Resolve, Entries
<1>2. PassesAsDirectory' <=> PassesAsDirectory
    BY <1>1 DEF PassesAsDirectory
<1>3. IsDirectory(cli.path)' <=> IsDirectory(cli.path)
    BY SearchingStays
<1> QED BY <1>2, <1>3 DEF Meant, Refused, Understood

LEMMA FindInvariantKept ==
    ASSUME \A source \in Images : Walkable(source), FindInvariant, [Next]_vars
    PROVE  FindInvariant'
<1>1. UNCHANGED image /\ Walkable(image) /\ image \in Images
    BY ImageStays DEF FindInvariant
<1>2. CASE DispatchRead
    BY <1>1, <1>2, FindIsParsed DEF DispatchRead
<1>3. CASE DispatchBare
    <2>1. read = "idle" /\ read' = "error" /\ UNCHANGED <<listing, printed, cli, call>>
        BY <1>3 DEF DispatchBare, NothingStarted, Stop, findVars
    <2>2. call' = None
        BY <2>1 DEF FindInvariant
    <2> QED BY <1>1, <2>1, <2>2 DEF FindInvariant, Meant
<1>4. CASE Reading
    <2>1. CASE Info \/ List \/ RefuseCat \/ StartCat
        <3>1. /\ read = "parsed" /\ cli.operation \in {"info", "list", "cat"}
              /\ UNCHANGED <<call, cli>> /\ read' \in {"error", "done", "cat"}
              /\ read' = "cat" => cli.operation = "cat"
            BY <2>1 DEF Info, List, RefuseCat, StartCat, Asks, Stop
        <3>2. ~(Meant')
            BY <1>1, <3>1, MeaningStays DEF FindInvariant
        <3> QED BY <1>1, <3>1, <3>2 DEF FindInvariant
    <2>2. CASE CatExtent \/ CatTail
        <3>1. /\ read = "cat" /\ UNCHANGED <<call, cli>> /\ read' \in {"done", "cat"}
            BY <2>2 DEF CatExtent, CatTail
        <3>2. cli.operation = "cat" /\ ~(Meant')
            BY <1>1, <3>1, MeaningStays DEF FindInvariant
        <3> QED BY <1>1, <3>1, <3>2 DEF FindInvariant
    <2>3. CASE RefuseTarget \/ ListNothing
        <3>1. /\ read = "parsed" /\ UNCHANGED <<call, cli, listing, printed>>
              /\ ~IsDirectory(cli.path)
              /\ read' = "error" \/ (read' = "done" /\ PassesAsDirectory)
            BY <2>3 DEF RefuseTarget, ListNothing, PassesAsDirectory, Stop, findVars, Target, IsDirectory
        <3>2. Meant' => Searched'
            BY <1>1, <3>1, MeaningStays DEF Searched, FindInvariant
        <3> QED BY <1>1, <3>1, <3>2 DEF FindInvariant
    <2>4. CASE StartFind
        <3>1. /\ read = "parsed" /\ IsDirectory(cli.path) /\ listing = <<>> /\ printed = <<>>
              /\ read' = "find" /\ UNCHANGED <<call, cli, listing, within, printed>>
              /\ pending' = <<[dir |-> Resolve(cli.path).to, path |-> cli.path]>>
            BY <2>4 DEF StartFind, Asks, Target, IsDirectory, FindInvariant
        <3>2. ASSUME Meant PROVE Walking'
            <4>1. cli.path \in Paths
                BY <3>1, <3>2 DEF FindInvariant, Understood
            <4>2. Searching(cli.path, cli.pattern, pending', listing', within', printed')
                BY <1>1, <3>1, <4>1, WalkStarts
            <4>3. Searching(cli.path, cli.pattern, pending, listing, within, printed)' /\ IsDirectory(cli.path)'
                BY <1>1, <3>1, <4>2, SearchingStays
            <4> QED BY <4>3 DEF Walking
        <3> QED BY <1>1, <3>1, <3>2, MeaningStays DEF FindInvariant
    <2>5. CASE VisitDirectory \/ FindEntry
        <3>1. /\ read = "find" /\ read' = "find" /\ UNCHANGED <<call, cli>>
            BY <2>5 DEF VisitDirectory, FindEntry
        <3>2. ASSUME Meant PROVE Walking'
            <4>1. /\ cli.path \in Paths /\ IsDirectory(cli.path)
                  /\ Searching(cli.path, cli.pattern, pending, listing, within, printed)
                BY <3>1, <3>2 DEF FindInvariant, Walking, Understood
            <4>2. Searching(cli.path, cli.pattern, pending', listing', within', printed')
                <5>1. CASE VisitDirectory
                    BY <1>1, <4>1, <5>1, VisitKeeps DEF VisitDirectory
                <5>2. CASE FindEntry
                    <6> DEFINE e == Head(listing)
                               r == Append(within, e.name)
                    <6>1. NextEntry(cli.path, listing, within, e, r, Tail(listing))
                        BY <4>1, <5>2 DEF FindEntry, NextEntry, Searching
                    <6>2. /\ pending' = PendingAfter(pending, e, r) /\ listing' = Tail(listing) /\ within' = within
                          /\ printed' = PrintedAfter(cli.pattern, printed, e, r)
                        BY <5>2 DEF FindEntry, PendingAfter, PrintedAfter, Selected, NameFits
                    <6> HIDE DEF e, r
                    <6> QED BY <1>1, <4>1, <6>1, <6>2, EntryKeeps
                <5> QED BY <2>5, <5>1, <5>2
            <4>3. Searching(cli.path, cli.pattern, pending, listing, within, printed)' /\ IsDirectory(cli.path)'
                BY <1>1, <3>1, <4>1, <4>2, SearchingStays
            <4> QED BY <4>3 DEF Walking
        <3> QED BY <1>1, <3>1, <3>2, MeaningStays DEF FindInvariant
    <2>6. CASE EndFind
        <3>1. /\ read = "find" /\ read' = "done" /\ listing = <<>> /\ pending = <<>>
              /\ UNCHANGED <<call, cli, printed>>
            BY <2>6 DEF EndFind, Stop, findVars
        <3>2. ASSUME Meant PROVE Searched'
            <4>1. Walking /\ Understood /\ ~Refused(call)
                BY <3>1, <3>2 DEF FindInvariant
            <4>2. /\ printed \in Seq(Paths) /\ IsInjective(printed)
                  /\ \A p \in Paths : p \in Range(printed) <=> Sought(cli.path, cli.pattern, p)
                BY <3>1, <4>1, WalkEnds DEF Walking
            <4>3. IsDirectory(cli.path)' /\ \A p \in Paths : p \in Range(printed') <=> Sought(cli.path, cli.pattern, p)'
                BY <1>1, <3>1, <4>1, <4>2, SearchingStays DEF Walking
            <4> QED BY <1>1, <3>1, <4>1, <4>2, <4>3, MeaningStays DEF Searched
        <3> QED BY <1>1, <3>1, <3>2, MeaningStays DEF FindInvariant
    <2> QED BY <1>4, <2>1, <2>2, <2>3, <2>4, <2>5, <2>6 DEF Reading, ReadStep
<1>5. CASE DispatchWrite \/ Writing \/ Finished \/ Fails \/ UNCHANGED vars
    <2>1. UNCHANGED <<call, read, cli, pending, listing, within, printed>>
        BY <1>5 DEF DispatchWrite, Writing, Finished, Fails, vars, readVars, findVars
    <2>2. Walking => Walking'
        <3> SUFFICES ASSUME Walking PROVE Walking'
            OBVIOUS
        <3>1. Searching(cli.path, cli.pattern, pending, listing, within, printed)' /\ IsDirectory(cli.path)'
            BY <1>1, <2>1, SearchingStays DEF Walking
        <3> QED BY <3>1 DEF Walking
    <2>3. Searched => Searched'
        BY <1>1, <2>1, MeaningStays, SearchingStays DEF Searched
    <2> QED BY <1>1, <2>1, <2>2, <2>3, MeaningStays DEF FindInvariant
<1> QED BY <1>2, <1>3, <1>4, <1>5 DEF Next, Proceed

(* --find prints every path below the directory whose name fits the glob,  *)
(* and each once, whatever the tree and the documented form of the         *)
(* arguments, but for the two forms that are refused, on every image whose *)
(* directories nest and have no two entries of one name (run_ext4 and      *)
(* run_erofs, read/mod.rs).                                                *)
THEOREM FindPrintsThePaths ==
    ASSUME \A source \in Images : Walkable(source)
    PROVE  Spec => []FindIsExact
<1>1. Init => FindInvariant
    BY DEF Init, SourceInit, ReadInit, FindInvariant
<1>2. FindInvariant /\ [Next]_vars => FindInvariant'
    BY FindInvariantKept
<1>3. FindInvariant => FindIsExact
    BY FoundIsExact DEF FindInvariant
<1> QED BY <1>1, <1>2, <1>3, PTL DEF Spec
=============================================================================
