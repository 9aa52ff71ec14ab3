-------------------------------- MODULE Cheats ---------------------------------
(***************************************************************************)
(* The cheat list of a game (CheatEngine in src/core/cheats.cpp) and what  *)
(* the emulator makes of it (src/core/emulator.cpp): programs that run     *)
(* before every frame, patches of the cartridge that follow the list, and  *)
(* a file beside the save.                                                 *)
(***************************************************************************)
EXTENDS CheatCode

CONSTANTS
  Games, None,      \* games, and no game
  Texts,            \* for each code text, its format and lines
  Typed,            \* code texts that users type
  Names,            \* names of cheats
  Descriptions,     \* names that users type
  Quoted(_),        \* quote_value(): what a name becomes in a file
  RomSize,          \* cartridge halfwords 0 .. RomSize - 1
  Files,            \* cheat files that exist before the program starts
  Keys,             \* masks of held keys
  GameValues,       \* what the game leaves in memory
  FileLimit,        \* kMaximumCheatsInFile
  MaxCheats, MaxEdits    \* bounds: cheats in a list, changes of it

Entries == [description : Names, code : DOMAIN Texts, enabled : BOOLEAN]

\* A file; a cheat in it may have no code.
CheatFiles ==
  [recognized : BOOLEAN,
   cheats : Seq([description : Names, code : {<<>>} \cup {<<text>> : text \in DOMAIN Texts},
                 enabled : BOOLEAN])]

ASSUME CheatsAssumption ==
  /\ None \notin Games /\ RomSize \in Nat /\ FileLimit \in Nat
  /\ MaxCheats \in Nat /\ MaxEdits \in Nat
  /\ \A text \in DOMAIN Texts :
       Texts[text].lines \in Seq(CodeLines) /\ Texts[text].format \in Formats
  /\ Typed \subseteq DOMAIN Texts /\ Descriptions \subseteq Names
  /\ \A name \in Names : Quoted(name) \in Names
  /\ Files \subseteq CheatFiles /\ GameValues \subseteq Values

VARIABLES
  game,        \* the loaded game, or None
  cheats,      \* CheatEngine::entries_
  revision,    \* CheatEngine::revision_
  synced,      \* synced_cheat_revision_
  stale,       \* rom_patches_stale_
  applied,     \* applied_rom_patches_
  rom,         \* the cartridge in memory
  memory,      \* work RAM
  files,       \* cheat file of each game
  framed,      \* history: the list the last frame of this cartridge started with
  kept         \* history: the last cheat file could be written

vars == <<game, cheats, revision, synced, stale, applied, rom, memory, files, framed, kept>>

RomOffsets   == 0 .. RomSize - 1
OriginalRom  == [offset \in RomOffsets |-> 0]
EmptyMemory  == [cell \in Cells |-> 0]
\* No file, or one that is not a cheat file.
NoFile == [recognized |-> FALSE, cheats |-> <<>>]

Init ==
  /\ game = None /\ cheats = <<>> /\ revision = 0 /\ synced = 0 /\ stale = TRUE
  /\ applied = <<>> /\ rom = OriginalRom /\ memory = EmptyMemory
  /\ files \in [Games -> Files] /\ framed = <<>> /\ kept = TRUE

-----------------------------------------------------------------------------
(* Cheat files: for each cheat a name, a code and a flag, under its number. *)

Programs == [text \in DOMAIN Texts |-> CompileCheat(Texts[text].lines, Texts[text].format)]

\* The program is compiled when a cheat enters the list and goes with its text.
Program(entry) == Programs[entry.code]

Entry(description, code, enabled) ==
  [description |-> description, code |-> code, enabled |-> enabled]

Runs(entry) == entry.enabled /\ ~Program(entry).failed

\* Mutant: a cheat that does not decode is left out of the file.
ToTextDecoded(list) ==
  LET decoded == SelectSeq(list, LAMBDA e : ~Program(e).failed)
  IN  [recognized |-> TRUE,
       cheats |-> [i \in DOMAIN decoded |->
                     [description |-> Quoted(decoded[i].description),
                      code |-> <<decoded[i].code>>, enabled |-> decoded[i].enabled]]]

ToText(list) ==
  [recognized |-> TRUE,
   cheats |-> [i \in DOMAIN list |->
                 [description |-> Quoted(list[i].description), code |-> <<list[i].code>>,
                  enabled |-> list[i].enabled]]]

\* What a file says of one cheat: one that does not decode is kept, switched off.
Read(entry) ==
  LET e == Entry(entry.description, entry.code[1], entry.enabled)
  IN  [e EXCEPT !.enabled = @ /\ ~Program(e).failed]

\* load_text(): the cheats that have a code, in the order of their numbers.
LoadText(file) ==
  LET n == Smaller(Len(file.cheats), FileLimit)
      Found(list, cheat) == IF cheat.code = <<>> THEN list ELSE Append(list, Read(cheat))
  IN  Rounds(<<>>, [r \in (1 .. n) \X Seq(Entries) |-> Found(r[2], file.cheats[r[1]])], n)

\* A file that is absent or not a cheat file leaves the list empty.
Loaded(file) == IF ~file.recognized THEN <<>> ELSE LoadText(file)

\* save_cheats(): an empty list has no file.  Writing may fail and leave the old one.
SaveCheats(list) ==
  \/ /\ files' = [files EXCEPT ![game] = IF list = <<>> THEN NoFile ELSE ToText(list)]
     /\ kept' = TRUE
  \/ /\ list # <<>> /\ files' = files /\ kept' = FALSE

-----------------------------------------------------------------------------
(* The list: each change is saved at once.                                 *)

Edited(list) ==
  /\ game # None /\ revision < MaxEdits
  /\ cheats' = list /\ revision' = revision + 1
  /\ SaveCheats(list)
  /\ UNCHANGED <<game, synced, stale, applied, rom, memory, framed>>

Add ==
  /\ Len(cheats) < MaxCheats
  /\ \E d \in Descriptions, c \in Typed :
       /\ ~Programs[c].failed
       /\ Edited(Append(cheats, Entry(d, c, TRUE)))

\* The editor switches a cheat on that did not decode before.
Replace ==
  \E i \in DOMAIN cheats, d \in Descriptions, c \in Typed :
    /\ ~Programs[c].failed
    /\ Edited([cheats EXCEPT ![i] = Entry(d, c, @.enabled \/ Program(@).failed)])

RemoveCheat == \E i \in DOMAIN cheats : Edited(RemoveAt(cheats, i))

\* Only a cheat that decodes has a switch.
SetEnabled ==
  \E i \in DOMAIN cheats :
    /\ ~Program(cheats[i]).failed
    /\ Edited([cheats EXCEPT ![i].enabled = ~@])

-----------------------------------------------------------------------------
(* Games and frames.                                                       *)

LoadRom ==
  /\ revision < MaxEdits
  /\ \E g \in Games :
       /\ game' = g /\ cheats' = Loaded(files[g])
       /\ applied' = <<>>
  /\ revision' = revision + 1 /\ stale' = TRUE
  /\ rom' = OriginalRom /\ memory' = EmptyMemory /\ framed' = <<>> /\ kept' = TRUE
  /\ UNCHANGED <<synced, files>>

UnloadRom ==
  /\ game # None /\ revision < MaxEdits
  /\ game' = None /\ cheats' = <<>> /\ revision' = revision + 1
  /\ stale' = TRUE /\ applied' = <<>>
  /\ rom' = OriginalRom /\ memory' = EmptyMemory /\ framed' = <<>> /\ kept' = TRUE
  /\ UNCHANGED <<synced, files>>

Undos    == [offset : RomOffsets, original : Values]
Overlays == [image : [RomOffsets -> Values], undo : Seq(Undos)]

\* An image with a patch more, and how to undo it.  A patch beyond the end of the
\* cartridge is passed over.
Patched(overlay, patch) ==
  IF patch.address \notin RomOffsets THEN overlay
  ELSE [image |-> [overlay.image EXCEPT ![patch.address] = patch.value],
        undo  |-> Append(overlay.undo, [offset   |-> patch.address,
                                        original |-> overlay.image[patch.address]])]

WithPatch(patches, op) == IF op.kind = "patch" THEN Append(patches, op) ELSE patches

WithPatchesOf(patches, entry) ==
  LET operations == Program(entry).operations
      n == Len(operations)
  IN  IF ~Runs(entry) THEN patches
      ELSE Rounds(patches,
                  [r \in (1 .. n) \X Seq(Operations) |-> WithPatch(r[2], operations[r[1]])], n)

\* The patches of the cheats that are on, in the order of the list.
RomPatches(list) ==
  Rounds(<<>>, [r \in (1 .. Len(list)) \X Seq(Operations) |-> WithPatchesOf(r[2], list[r[1]])],
         Len(list))

Undone(image, patches) ==
  Rounds(image,
         [r \in (1 .. Len(patches)) \X [RomOffsets -> Values] |->
            [r[2] EXCEPT ![patches[r[1]].offset] = patches[r[1]].original]], Len(patches))

\* Mutant: patches are undone in the order they were applied.
UnwoundForward(image, patches) == Undone(image, patches)

\* In reverse, so that overlapping patches unwind to the original.
Unwound(image, patches) == Undone(image, Reverse(patches))

\* The image with a list's patches, and how to undo them.
Overlaid(image, list) ==
  LET patches == RomPatches(list)
  IN  Rounds([image |-> image, undo |-> <<>>],
             [r \in (1 .. Len(patches)) \X Overlays |-> Patched(r[2], patches[r[1]])],
             Len(patches))

OutOfDate == stale \/ revision # synced

Synchronized ==
  IF OutOfDate THEN Overlaid(Unwound(rom, applied), cheats) ELSE [image |-> rom, undo |-> applied]

\* apply(): every program that is on, in the order of the list.
Applied(mem, keys) ==
  LET After(m, entry) == IF Runs(entry) THEN RunCheatProgram(Program(entry), m, keys) ELSE m
  IN  Rounds(mem, [r \in (1 .. Len(cheats)) \X Memories |-> After(r[2], cheats[r[1]])],
             Len(cheats))

\* The start of run_frame(); the game may then write what it likes.
RunFrame ==
  /\ game # None
  /\ rom' = Synchronized.image /\ applied' = Synchronized.undo
  /\ stale' = FALSE /\ synced' = revision
  /\ \E keys \in Keys : memory' = Applied(memory, keys)
  /\ framed' = cheats
  /\ UNCHANGED <<game, cheats, revision, files, kept>>

GameStores ==
  /\ game # None
  /\ \E v \in GameValues : memory' = [cell \in Cells |-> v]
  /\ UNCHANGED <<game, cheats, revision, synced, stale, applied, rom, files, framed, kept>>

Next ==
  \/ Add \/ Replace \/ RemoveCheat \/ SetEnabled
  \/ LoadRom \/ UnloadRom \/ RunFrame \/ GameStores

Spec == Init /\ [][Next]_vars

-----------------------------------------------------------------------------

\* Types.
TypeOK ==
  /\ game \in Games \cup {None} /\ cheats \in Seq(Entries) /\ framed \in Seq(Entries)
  /\ revision \in 0 .. MaxEdits /\ synced \in 0 .. MaxEdits
  /\ stale \in BOOLEAN /\ kept \in BOOLEAN
  /\ rom \in [RomOffsets -> Values] /\ applied \in Seq(Undos)
  /\ memory \in Memories /\ files \in [Games -> CheatFiles]

\* Whatever cheats are switched, edited and removed in any order, undoing the
\* applied patches gives back the cartridge as it was read.
UnwindsToOriginal == Unwound(rom, applied) = OriginalRom

\* A place in a list is a cheat and an operation of it.
OperationAt(list, place) == Program(list[place[1]]).operations[place[2]]

Behind(place, other) ==
  place[1] > other[1] \/ (place[1] = other[1] /\ place[2] > other[2])

PlacesIn(list, i) == {<<i, j>> : j \in DOMAIN Program(list[i]).operations}

\* Where the cheats that are on patch a halfword.
PatchPlaces(list, offset) ==
  {place \in UNION {PlacesIn(list, i) : i \in {k \in DOMAIN list : Runs(list[k])}} :
     /\ OperationAt(list, place).kind = "patch"
     /\ OperationAt(list, place).address = offset}

\* "ROM patches follow the list automatically": a halfword of the cartridge holds,
\* while a frame runs, what the last patch of it says among the cheats that were on
\* when the frame started, and what it was read with where there is none.
RomFollowsList ==
  \A offset \in RomOffsets :
    LET places == PatchPlaces(framed, offset)
    IN  IF places = {} THEN rom[offset] = OriginalRom[offset]
        ELSE \E last \in places :
               /\ \A place \in places : ~Behind(place, last)
               /\ rom[offset] = OperationAt(framed, last).value

\* A change of the list is never missed: when the emulator believes that the
\* patches are up to date, they are those of the list.
ChangesNoticed ==
  (game # None /\ ~OutOfDate) => framed = cheats

End(op) == op.data_offset + op.count

WithinData(program) ==
  \A j \in DOMAIN program.operations :
    LET op == program.operations[j]
    IN  op.kind = "bytes" =>
          /\ End(op) <= Len(program.data)
          /\ \A k \in 1 .. j - 1 :
               program.operations[k].kind = "bytes" => End(program.operations[k]) <= op.data_offset

\* One operation after another, when none jumps: skip is how many have no effect.
Remaining(program, mem, keys) ==
  LET operations == program.operations
      n == Len(operations)
      After(acc, op) ==
        IF acc.skip > 0 THEN [acc EXCEPT !.skip = @ - 1]
        ELSE [memory |-> Executed(acc.memory, op, program.data),
              skip   |-> SkippedBy(op, acc.memory, keys)]
  IN  Rounds([memory |-> mem, skip |-> 0],
             [r \in (1 .. n) \X [memory : Memories, skip : Nat] |->
                After(r[2], operations[r[1]])], n)

\* Programs read their data without a check: the data of each operation is within
\* the program's, and that of different operations does not overlap.
DataInBounds ==
  \A i \in DOMAIN cheats : ~Program(cheats[i]).failed => WithinData(Program(cheats[i]))

\* "Execute the next code" conditions skip whole codes: a failed condition leaves
\* the operations it covers, and no others, without effect, though their jumps and
\* the end of the program come in between.
ConditionsSkipCodes ==
  \A i \in DOMAIN cheats :
    LET p == Program(cheats[i])
    IN  ~p.failed => \A keys \in Keys :
          RunCheatProgram(p, memory, keys) = Remaining(p, memory, keys).memory

\* A list whose file could be written is the list the next start of the game
\* finds, the codes that do not decode included, but for the characters a file
\* cannot hold in a name.
FileKeepsCheats ==
  (game # None /\ kept /\ Len(cheats) <= FileLimit) =>
    Loaded(files[game]) \in
      {cheats, [i \in DOMAIN cheats |-> [cheats[i] EXCEPT !.description = Quoted(@)]]}

\* The ROM holds the patches of the cheats that are on, no more and no less, and can be
\* put back to what it was, after any edits of the list.
PatchesFollowCheats == TypeOK /\ UnwindsToOriginal /\ RomFollowsList /\ ChangesNoticed

\* A program that decodes runs within its data and skips whole codes.
ProgramsSound == DataInBounds /\ ConditionsSkipCodes
=============================================================================
