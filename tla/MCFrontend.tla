------------------------------ MODULE MCFrontend -------------------------------
(***************************************************************************)
(* Two games, and a library of two folders, for TLC.  The machine of the   *)
(* first game has two bytes, three once its save chip has a size; the      *)
(* second's bytes are never those of the first.  The folders share a file. *)
(*                                                                         *)
(* A session and the library share no state, so each behaviour exercises   *)
(* one of them and leaves the other as it began.                           *)
(***************************************************************************)
EXTENDS Session, Library

Bits == INSTANCE Bitwise

MCByte == 0 .. 15
MCXorTable == [a, b \in Byte |-> Bits!^^(a, b)]
MCXor(a, b) == MCXorTable[a, b]

MCContents == <<{<<0>>, <<1>>, <<1, 1>>}, {<<2>>}>>
MCFilesIn == [d \in FolderNames |-> IF d = "all" THEN Files ELSE {CHOOSE f \in Files : TRUE}]

VARIABLE part

frontend == <<vars, libraryVars, part>>

FrontendInit ==
  /\ Init /\ LibraryInit
  /\ \/ part = "session" /\ disk = [f \in Files |-> NoRom]
     \/ part = "library" /\ \A limit \in Limits : rewind.limit <= limit

FrontendNext ==
  /\ UNCHANGED part
  /\ \/ part = "session" /\ Next /\ UNCHANGED libraryVars
     \/ part = "library" /\ LibraryNext /\ UNCHANGED vars

FrontendSpec ==
  FrontendInit /\ [][FrontendNext]_frontend /\ SessionFairness /\ LibraryFairness
=============================================================================
