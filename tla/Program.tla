------------------------------ MODULE Program -------------------------------
(***************************************************************************)
(* commands.c: the listing of a program's commands, which grows as it is   *)
(* filled by a caller or read from a file, and what is printed of it.      *)
(*                                                                         *)
(* A file is a sequence of lines as program_read divides it, and a line    *)
(* the fields that it finds there; the blanks between them are left out.   *)
(* In a field the hexadecimal digits are 0..15, and every other character  *)
(* is OtherChar.  The data of a write is what stands between its "0x" and  *)
(* the next blank or newline, which may be nothing.  An address is what    *)
(* stands between its "0x" and the newline that ends it: program_read      *)
(* takes ADDR_DIGITS characters for it whatever they are, blanks and       *)
(* newlines among them, and only then asks for a newline.  An address of   *)
(* any other length stands for what has no newline there.                  *)
(***************************************************************************)
EXTENDS PageWalk, Sequences

CONSTANTS
  INIT_ALLOCATED,  \* the commands a new listing has room for, 10 in the source
  SHRINK_MIN,      \* the program that program_shrink leaves alone, 10
  ADDR_DIGITS,     \* the digits of an address, 16
  WORD_DIGITS,     \* the digits of a word, 8
  COMMANDS,        \* the commands that callers add
  FILES,           \* the files that callers find
  MAX_LINES,       \* bound: the commands of a program
  Unset,           \* what an entry holds before a command is stored
  None             \* the file is not one of program_print

\* 16^k.
Power[k \in Nat] == IF k = 0 THEN 1 ELSE 16 * Power[k - 1]

\* A word_t, of WORD_DIGITS hexadecimal digits.
Data == 0..Power[WORD_DIGITS]-1

Order == {"READ", "WRITE"}
Access == {"INSTRUCTION", "DATA"}
Command == [order : Order, type : Access, data_size : Nat, write_data : Data, vaddr : VirtAddr]

OtherChar == 16
Char == 0..OtherChar
Line == [order : {"R", "W", "?"}, type : {"I", "D", "?"}, size : {"W", "B", ""},
         hasData : BOOLEAN, data : Seq(Char), addr : Seq(Char)]

ASSUME ProgramAssumption ==
  /\ INIT_ALLOCATED \in Nat \ {0} /\ SHRINK_MIN \in Nat /\ MAX_LINES \in Nat
  /\ ADDR_DIGITS \in Nat /\ WORD_DIGITS \in Nat /\ WORD_DIGITS >= 2
  /\ PAGE_SIZE * (PD_ENTRIES * (PD_ENTRIES * (PD_ENTRIES * PD_ENTRIES))) <= Power[ADDR_DIGITS]
  /\ COMMANDS \subseteq Command
  /\ FILES \subseteq Seq(Line)

VARIABLES
  listing,    \* program->listing: "unset" in a new program_t, "NULL" or "block"
  block,      \* the entries of the block it points to
  nb_lines,   \* those that are filled
  allocated,  \* the room the program_t tells of
  code,       \* what the last call returned, "crash" or "overflow"
  call,       \* the last call that was made
  file,       \* a file that holds a program
  printed,    \* the commands program_print wrote to it
  accepted,   \* the commands that were taken since the listing was made
  nread,      \* how many of them, the first ones, were read from a file
  failed      \* calloc, realloc or fopen failed since the last program_free

vars == <<listing, block, nb_lines, allocated, code, call, file, printed, accepted, nread,
          failed>>

Running == code \notin {"crash", "overflow"}
Live == listing = "block"

\* A caller makes a listing for a program_t that has none.
Dead == listing # "block"

Room(n) == [i \in 0..n-1 |-> Unset]
NoRoom == Room(0)
PointTo(entries) == listing' = "block" /\ block' = entries
PointNowhere == listing' = "NULL" /\ block' = NoRoom

\* realloc keeps what fits.
ResizedShort(n) == [i \in 0..n-2 |-> IF i \in DOMAIN block THEN block[i] ELSE Unset]
ResizedEmpty(n) == Room(n)
Resized(n) == [i \in 0..n-1 |-> IF i \in DOMAIN block THEN block[i] ELSE Unset]

-----------------------------------------------------------------------------
(* Lines and commands.                                                     *)

\* hex_char_to_int answers with its error code for what is no digit.
ERR_BAD_PARAMETER == 3
HexCharToInt(c) == IF c = OtherChar THEN ERR_BAD_PARAMETER ELSE c
Number(field) ==
  LET value[i \in 0..Len(field)] ==   \* of the first i characters
        IF i = 0 THEN 0 ELSE 16 * value[i - 1] + HexCharToInt(field[i])
  IN value[Len(field)]

WordOrByte(line) == line.size \in {"W", "B"}
ReadProcedure(line) ==
  /\ \/ line.type = "D" /\ WordOrByte(line)
     \/ line.type = "I" /\ line.size = ""
  /\ ~line.hasData
WriteBelow(line) ==
  /\ line.type = "D" /\ WordOrByte(line)
  /\ line.hasData /\ Len(line.data) < WORD_DIGITS
WriteProcedure(line) ==
  /\ line.type = "D" /\ WordOrByte(line)
  /\ line.hasData /\ Len(line.data) <= WORD_DIGITS

\* A line that is read as a command.
Parses(line) ==
  /\ \/ line.order = "R" /\ ReadProcedure(line)
     \/ line.order = "W" /\ WriteProcedure(line)
  /\ Len(line.addr) = ADDR_DIGITS

CommandOf(line) ==
  [order |-> IF line.order = "R" THEN "READ" ELSE "WRITE",
   type |-> IF line.type = "I" THEN "INSTRUCTION" ELSE "DATA",
   data_size |-> IF line.size = "B" THEN 1 ELSE 4,
   write_data |-> IF line.order = "R" THEN 0 ELSE Number(line.data),
   vaddr |-> InitVirtAddr64(Number(line.addr))]

\* The digits of n, as many as it has and "width" at least.
Digits(n, width) ==
  LET k == CHOOSE k \in width..width+WORD_DIGITS :
             n < Power[k] /\ \A j \in width..k-1 : n >= Power[j]
  IN [i \in 1..k |-> (n \div Power[k - i]) % 16]

\* A line of program_print; a read is printed without its write_data.
LineOf(command) ==
  [order |-> IF command.order = "READ" THEN "R" ELSE "W",
   type |-> IF command.type = "DATA" THEN "D" ELSE "I",
   size |-> IF command.type # "DATA" THEN "" ELSE IF command.data_size = 4 THEN "W" ELSE "B",
   hasData |-> command.order = "WRITE",
   data |-> IF command.order = "READ" THEN <<>>
            ELSE Digits(command.write_data, IF command.data_size = 4 THEN WORD_DIGITS ELSE 2),
   addr |-> Digits(VirtAddrToUint64(command.vaddr), ADDR_DIGITS)]

-----------------------------------------------------------------------------
Init ==
  /\ listing = "unset" /\ block = NoRoom /\ nb_lines = 0 /\ allocated = 0
  /\ code = "ERR_NONE" /\ call = "none"
  /\ file \in FILES /\ printed = None
  /\ accepted = <<>> /\ nread = 0 /\ failed = FALSE

Called(name, error) == Running /\ call' = name /\ code' = error

\* calloc fails in program_init.
InitFails ==
  /\ PointNowhere /\ nb_lines' = 0 /\ allocated' = INIT_ALLOCATED
  /\ accepted' = <<>> /\ nread' = 0 /\ failed' = TRUE

ProgramInit ==
  /\ Dead
  /\ \/ /\ Called("init", "ERR_NONE")
        /\ PointTo(Room(INIT_ALLOCATED)) /\ nb_lines' = 0 /\ allocated' = INIT_ALLOCATED
        /\ accepted' = <<>> /\ nread' = 0 /\ UNCHANGED failed
     \/ Called("init", "ERR_MEM") /\ InitFails
  /\ UNCHANGED <<file, printed>>

\* The four checks; the last one asks for a multiple of 8.
AcceptsWrites(command) ==
  /\ command.data_size \in {1, 4}
  /\ ~(command.type = "INSTRUCTION" /\ command.data_size # 4)
  /\ command.vaddr.page_offset % 8 = 0
Accepts(command) ==
  /\ command.data_size \in {1, 4}
  /\ ~(command.type = "INSTRUCTION" /\ command.data_size # 4)
  /\ ~(command.order = "WRITE" /\ command.type = "INSTRUCTION")
  /\ command.vaddr.page_offset % 8 = 0

\* The command is stored after the others, in the block there then is.
Store(entries, command) ==
  IF nb_lines \in DOMAIN entries
  THEN /\ Called("add", "ERR_NONE")
       /\ PointTo([entries EXCEPT ![nb_lines] = command])
       /\ nb_lines' = nb_lines + 1
       /\ accepted' = Append(accepted, command)
  ELSE /\ Called("add", "overflow")
       /\ UNCHANGED <<listing, block, nb_lines, accepted>>

(***************************************************************************)
(* The loop doubles allocated until there is room, once therefore while    *)
(* nb_lines is not above allocated.  When realloc fails the listing is     *)
(* lost, and nb_lines and the doubled allocated are kept.                  *)
(***************************************************************************)
AddCommand(command) ==
  /\ listing # "unset"
  /\ nb_lines < MAX_LINES
  /\ \/ /\ Dead \/ ~Accepts(command)
        /\ Called("add", IF Dead THEN "ERR_MEM" ELSE "ERR_BAD_PARAMETER")
        /\ UNCHANGED <<listing, block, nb_lines, allocated, accepted, failed>>
     \/ /\ Live /\ Accepts(command) /\ nb_lines < allocated
        /\ Store(block, command)
        /\ UNCHANGED <<allocated, failed>>
     \/ /\ Live /\ Accepts(command) /\ nb_lines >= allocated
        /\ allocated' = 2 * allocated
        /\ \/ Store(Resized(2 * allocated), command) /\ UNCHANGED failed
           \/ /\ Called("add", "ERR_MEM")
              /\ PointNowhere /\ failed' = TRUE
              /\ UNCHANGED <<nb_lines, accepted>>
  /\ UNCHANGED <<file, printed, nread>>

ProgramShrink ==
  /\ listing # "unset"
  /\ \/ /\ Dead \/ nb_lines <= SHRINK_MIN
        /\ Called("shrink", IF Dead THEN "ERR_MEM" ELSE "ERR_NONE")
        /\ UNCHANGED <<listing, block, allocated, failed>>
     \/ /\ Live /\ nb_lines > SHRINK_MIN
        /\ allocated' = nb_lines
        /\ \/ Called("shrink", "ERR_NONE") /\ PointTo(Resized(nb_lines)) /\ UNCHANGED failed
           \/ Called("shrink", "ERR_MEM") /\ PointNowhere /\ failed' = TRUE
  /\ UNCHANGED <<nb_lines, file, printed, accepted, nread>>

Contents == [i \in 1..nb_lines |-> block[i - 1]]

\* A lost listing that still counts lines is read through NULL.
ProgramPrint ==
  /\ listing # "unset"
  /\ \/ /\ Live \/ nb_lines = 0
        /\ Called("print", "ERR_NONE")
        /\ file' = [i \in 1..nb_lines |-> LineOf(block[i - 1])]
        /\ printed' = Contents
     \/ /\ Dead /\ nb_lines > 0
        /\ Called("print", "crash")
        /\ UNCHANGED <<file, printed>>
  /\ UNCHANGED <<listing, block, nb_lines, allocated, accepted, nread, failed>>

(***************************************************************************)
(* program_read, once the file is open and the listing made.  Each command *)
(* is stored as it is read, in a listing that does not grow: the first     *)
(* character of a command beyond INIT_ALLOCATED leads to a write after the *)
(* end of the block, where the model ends.  (The loop goes on to 100.)     *)
(* nb_lines is set at the end: an error leaves a program without lines.    *)
(***************************************************************************)
ReadLines(n) ==
  /\ n <= Len(file) /\ \A i \in 1..n : Parses(file[i])
  /\ PointTo([i \in 0..INIT_ALLOCATED-1 |-> IF i < n THEN CommandOf(file[i + 1]) ELSE Unset])
  /\ allocated' = INIT_ALLOCATED
  /\ UNCHANGED failed
  /\ \/ /\ n = Len(file)
        /\ Called("read", "ERR_NONE")
        /\ nb_lines' = n /\ nread' = n
        /\ accepted' = [i \in 1..n |-> CommandOf(file[i])]
     \/ /\ n < Len(file)
        /\ \/ n < INIT_ALLOCATED /\ ~Parses(file[n + 1])
           \/ n = INIT_ALLOCATED /\ file[n + 1].order \notin {"R", "W"}
        /\ Called("read", "ERR_BAD_PARAMETER")
        /\ nb_lines' = 0 /\ accepted' = <<>> /\ nread' = 0
     \/ /\ n < Len(file)
        /\ n = INIT_ALLOCATED /\ file[n + 1].order \in {"R", "W"}
        /\ Called("read", "overflow")
        /\ nb_lines' = 0 /\ accepted' = <<>> /\ nread' = 0

\* A file that does not open is told before the program is initialised.
ProgramRead ==
  /\ Dead
  /\ \/ /\ Called("read", "ERR_BAD_PARAMETER")
        /\ failed' = TRUE
        /\ UNCHANGED <<listing, block, nb_lines, allocated, accepted, nread>>
     \/ Called("read", "ERR_MEM") /\ InitFails
     \/ \E n \in 0..INIT_ALLOCATED : ReadLines(n)
  /\ UNCHANGED <<file, printed>>

(***************************************************************************)
(* The callers of program_read free the program whatever it answered.      *)
(* free of a pointer that nobody set may crash or, when it is 0, return.   *)
(***************************************************************************)
ProgramFree ==
  /\ listing = "unset" => failed
  /\ \/ /\ Called("free", "ERR_NONE")
        /\ PointNowhere /\ nb_lines' = 0 /\ allocated' = 0
        /\ accepted' = <<>> /\ nread' = 0 /\ failed' = FALSE
     \/ /\ listing = "unset"
        /\ Called("free", "crash")
        /\ UNCHANGED <<listing, block, nb_lines, allocated, accepted, nread, failed>>
  /\ UNCHANGED <<file, printed>>

\* Someone else writes the file.
WriteFile ==
  /\ Running
  /\ file' \in FILES /\ printed' = None
  /\ UNCHANGED <<listing, block, nb_lines, allocated, code, call, accepted, nread, failed>>

Next ==
  \/ ProgramInit \/ ProgramShrink \/ ProgramPrint \/ ProgramRead \/ ProgramFree
  \/ \E command \in COMMANDS : AddCommand(command)
  \/ WriteFile

Spec == Init /\ [][Next]_vars

-----------------------------------------------------------------------------
\* Types of the state.
TypeOK ==
  /\ listing \in {"unset", "NULL", "block"}
  /\ DOMAIN block \subseteq Nat /\ block \in [DOMAIN block -> Command \cup {Unset}]
  /\ nb_lines \in Nat /\ allocated \in Nat
  /\ file \in Seq(Line)
  /\ printed = None \/ printed \in Seq(Command)
  /\ accepted \in Seq(Command) /\ nread \in Nat
  /\ failed \in BOOLEAN

(***************************************************************************)
(* Across every growth, shrinking, reading and freeing the block has the   *)
(* room that allocated tells of, and every line that is counted is in it.  *)
(***************************************************************************)
ListingHolds ==
  Running /\ Live => DOMAIN block = 0..allocated-1 /\ nb_lines <= allocated

(***************************************************************************)
(* The lines that are counted are the commands that were accepted, and the *)
(* listing holds them in their order: no realloc drops one, no refused     *)
(* command or file leaves one behind.  A listing that counts lines and     *)
(* holds none has lost them to a realloc that failed.                      *)
(***************************************************************************)
CommandsKept ==
  Running =>
    /\ nb_lines = Len(accepted)
    /\ Live => Contents = accepted
    /\ Dead /\ nb_lines > 0 => failed

(***************************************************************************)
(* Whichever way a command came in, the switch of execute_command has a    *)
(* case for it: nothing writes an instruction, sizes are a word or a byte, *)
(* and instructions are words.  A command that program_add_command would   *)
(* refuse for its alignment is in a listing only among those that were     *)
(* read from a file, for program_read does not look at it; that the caches *)
(* then take the address is not said.                                      *)
(***************************************************************************)
Executable(command) ==
  /\ command.data_size \in {1, 4}
  /\ command.type = "INSTRUCTION" => command.data_size = 4 /\ command.order = "READ"

LegalCommands ==
  Running /\ Live => \A i \in 1..nb_lines :
    /\ Executable(block[i - 1])
    /\ i > nread => Accepts(block[i - 1])

(***************************************************************************)
(* Nothing crashes unless an allocation or fopen failed before, and nothing*)
(* is stored outside of the block but by program_read, of a file with more *)
(* than INIT_ALLOCATED commands.                                           *)
(***************************************************************************)
UndefinedOnly ==
  /\ code = "crash" => failed
  /\ code = "overflow" => call = "read" /\ Len(file) > INIT_ALLOCATED

(***************************************************************************)
(* A program that was printed is read back as it was, but for write_data   *)
(* of reads, which are not printed.                                        *)
(***************************************************************************)
Reread(command) ==
  IF command.order = "READ" THEN [command EXCEPT !.write_data = 0] ELSE command

RoundTrip ==
  Running /\ call = "read" /\ ~failed /\ printed # None =>
    /\ code = "ERR_NONE"
    /\ Contents = [i \in 1..Len(printed) |-> Reread(printed[i])]

\* program_read returns, with ERR_NONE or an error code.
ReadFits == ~(call = "read" /\ code = "overflow")
=============================================================================
