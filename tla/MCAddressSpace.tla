--------------------------- MODULE MCAddressSpace ---------------------------
(***************************************************************************)
(* The instance of AddressSpace for TLC: two directories of two tables of  *)
(* two pages of two bytes.                                                 *)
(***************************************************************************)
EXTENDS AddressSpace

CONSTANT MaxSize  \* the bound on the bytes of a program with one header

SmallStack == [start |-> 6, end |-> 8]

Header1(va, filesz, memsz) == [va |-> va, filesz |-> filesz, memsz |-> memsz]
Elf(headers) == [elf |-> TRUE, ph |-> headers]

\* Every small program at the first addresses; programs whose two areas lie in
\* one table, in two, and in two directories; one beside the stack; one with an
\* empty part; and files that load_icode refuses.
SmallPrograms ==
  {Elf(<<Header1(va, f, m)>>) : va \in 0 .. 1, f \in 0 .. MaxSize, m \in 1 .. MaxSize}
    \cup {Elf(<<Header1(0, 2, 2), Header1(2, 1, 2)>>),
          Elf(<<Header1(0, 1, 1), Header1(5, 1, 2)>>),
          Elf(<<Header1(1, 1, 1), Header1(8, 2, 3)>>),
          Elf(<<Header1(9, 1, 2)>>),
          Elf(<<Header1(1, 0, 0), Header1(2, 1, 1)>>),
          [elf |-> FALSE, ph |-> <<>>]}
=============================================================================
