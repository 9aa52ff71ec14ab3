------------------------------- MODULE MCKept ---------------------------------
(***************************************************************************)
(* What is kept beside a ROM, for TLC: its battery save and its cheats.    *)
(* They share no state, so each behaviour exercises one of them and leaves *)
(* the other as it began.                                                  *)
(***************************************************************************)
EXTENDS Cheats, BatterySave

(* Battery saves: a flash game and an EEPROM game.                         *)
CONSTANTS Flash, Eeprom

MCSavedGames == {Flash, Eeprom}
MCEeproms    == {Eeprom}

(* Codes of every format: writes, conditions over codes of one and of      *)
(* several lines, slides, super codes, fills, pointers, patches of the     *)
(* same halfword, and codes that do not decode.                            *)
Bits == INSTANCE Bitwise

MCAnd(a, b) == Bits!&(a, b)

MCOr(a, b) == Bits!|(a, b)

Raw(a, v) == [shape |-> "raw", address |-> a, value |-> v]

Short(t, a, v) == [shape |-> "short", type |-> t, address |-> a, value |-> v, count |-> 0,
                   value_step |-> 0, address_step |-> 0, data |-> <<0, 0, 0, 0, 0, 0>>]

Other == [type |-> "other", address |-> 0, value |-> 0, count |-> 0, skip |-> 0]

Device(t, a, v, n, k) == [type |-> t, address |-> a, value |-> v, count |-> n, skip |-> k]

Gs(t, a, v, k)    == [shape |-> "long", gs |-> Device(t, a, v, 0, k), ar |-> Other]
Ar(t, a, v, n, k) == [shape |-> "long", gs |-> Other, ar |-> Device(t, a, v, n, k)]

Step   == [Short("write", 1, 1) EXCEPT !.count = 2, !.value_step = 3, !.address_step = 1]
Bytes7 == [Short("super", 0, 0) EXCEPT !.count = 7]
Bytes2 == [Short("super", 1, 0) EXCEPT !.count = 2]
Data   == [Short("or", 0, 1) EXCEPT !.data = <<3, 2, 1, 3, 2, 1>>]

Code(format, lines) == [format |-> format, lines |-> lines]

MCTexts ==
  [raw      |-> Code("auto", <<Raw(0, 3), Raw(1, 5)>>),
   slide    |-> Code("codebreaker", <<Short("lt", 0, 2), Short("slide", 0, 1), Step, Short("add", 1, 3)>>),
   super    |-> Code("auto", <<Short("keys", 0, 1), Bytes7, Data, Data, Bytes2, Data, Short("or", 1, 1)>>),
   patch    |-> Code("gameshark", <<Gs("patch", 1, 2, 0)>>),
   patches  |-> Code("auto", <<Gs("ge", 0, 1, 2), Gs("write", 0, 0, 0), Gs("patch", 1, 3, 0)>>),
   device   |-> Code("auto", <<Ar("id", 0, 0, 0, 0), Ar("patch", 1, 0, 0, 0), Ar("patch", 0, 1, 0, 0),
                               Ar("patch", 9, 1, 0, 0), Ar("end", 0, 1, 0, 0)>>),
   fill     |-> Code("auto", <<Ar("gts", 0, 0, 0, 9), Ar("fill", 0, 1, 2, 0), Ar("pointer", 1, 2, 1, 0)>>),
   switch   |-> Code("auto", <<Ar("skip", 0, 0, 0, 1), Ar("add", 0, 1, 0, 0), Ar("add", 1, 1, 0, 0)>>),
   cut      |-> Code("auto", <<Short("test", 1, 2), Short("and", 0, 1), Short("slide", 0, 1)>>),
   toolong  |-> Code("actionreplay", <<Ar("fill", 0, 1, 9, 0)>>),
   mixed    |-> Code("auto", <<Raw(0, 3), Short("add", 1, 3)>>),
   mystery  |-> Code("auto", <<Short("encrypted", 0, 0)>>)]

MCNames == {"say \"hi\"", "say 'hi'", "mystery", "no code", "switch"}

MCDescriptions == {"say \"hi\""}

MCQuoted(d) == IF d = "say \"hi\"" THEN "say 'hi'" ELSE d

Libretro ==
  [recognized |-> TRUE,
   cheats |-> <<[description |-> "mystery", enabled |-> TRUE, code |-> <<"mystery">>],
                [description |-> "no code", enabled |-> TRUE, code |-> <<>>],
                [description |-> "switch", enabled |-> TRUE, code |-> <<"switch">>]>>]

MCFiles == {NoFile, Libretro}

VARIABLE part

besideRom == <<vars, saveVars, part>>

KeptInit ==
  /\ Init /\ SaveInit
  /\ \/ part = "cheats"
     \/ part = "saves" /\ files = [g \in Games |-> NoFile]

KeptNext ==
  /\ UNCHANGED part
  /\ \/ part = "cheats" /\ Next /\ UNCHANGED saveVars
     \/ part = "saves" /\ SaveNext /\ UNCHANGED vars

KeptSpec == KeptInit /\ [][KeptNext]_besideRom /\ SaveFairness
=============================================================================
