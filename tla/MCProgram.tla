------------------------------ MODULE MCProgram ------------------------------
(***************************************************************************)
(* Instances of Program for TLC: listings of two commands that double to   *)
(* four, shrink to three and double to six; addresses of eight bits in     *)
(* three digits, so that the upper ones are lost.                          *)
(***************************************************************************)
EXTENDS Program

Cmd(order, type, size, data, n) ==
  [order |-> order, type |-> type, data_size |-> size, write_data |-> data,
   vaddr |-> InitVirtAddr64(n)]

MCCommands == {
  Cmd("READ", "DATA", 4, 7, 168),                                            \* accepted
  Cmd("WRITE", "DATA", 1, 427, 8), Cmd("READ", "INSTRUCTION", 4, 0, 240),
  Cmd("WRITE", "INSTRUCTION", 4, 1, 0), Cmd("READ", "INSTRUCTION", 1, 0, 0), \* refused
  Cmd("READ", "DATA", 2, 0, 0), Cmd("WRITE", "DATA", 1, 5, 4)}

\* Without and with data; "0x" may be followed by none.
L(order, type, size, addr) ==
  [order |-> order, type |-> type, size |-> size, hasData |-> FALSE, data |-> <<>>, addr |-> addr]
LW(order, type, size, data, addr) ==
  [L(order, type, size, addr) EXCEPT !.hasData = TRUE, !.data = data]

\* The last character of an address may be a newline, if another one follows.
ReadWord == L("R", "D", "W", <<3, 10, 2>>)
WriteByte == LW("W", "D", "B", <<5, OtherChar>>, <<0, 0, 5>>)
WriteNone == LW("W", "D", "W", <<>>, <<1, 0, OtherChar>>)

MCFiles == {
  <<>>, <<ReadWord, WriteByte>>, <<WriteByte, ReadWord, ReadWord>>,
  <<WriteNone>>, <<ReadWord, LW("W", "D", "W", <<11, 14, 14, 15>>, <<0, 1, 0>>)>>,
  <<L("?", "I", "", <<0, 0, 0>>)>>, <<ReadWord, ReadWord, L("?", "I", "", <<>>)>>,
  <<LW("W", "I", "", <<1>>, <<0, 0, 0>>)>>, <<L("W", "D", "B", <<0, 0, 0>>)>>,
  <<L("R", "I", "W", <<0, 0, 0>>)>>, <<LW("R", "D", "W", <<1>>, <<0, 0, 0>>)>>,
  <<L("R", "D", "", <<0, 0, 0>>)>>, <<L("R", "I", "", <<0, 0, 0, 0>>)>>}
=============================================================================
