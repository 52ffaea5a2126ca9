------------------------------ MODULE MCEz21 -------------------------------
(***************************************************************************)
(* Bounds for Ez21: bits for bytes, sixteen words of each memory with two  *)
(* vectors; the monitor has the upper half.                                *)
(***************************************************************************)
EXTENDS Ez21

Section(space, vaddr, data) == [space |-> space, vaddr |-> vaddr, data |-> data]
MemoryRange(space, start, length) == [space |-> space, start |-> start, length |-> length]

Vectors == Section("PM", 0, <<1, 1, 0, 1, 0, 1>>)
Program == Section("PM", 2, <<1, 1, 0, 0, 1, 1>>)
Data == Section("DM", 1, <<0, 0, 1, 1, 1, 0>>)

\* Vectors, program and data; a program that would reach the monitor, and data
\* that would; a program without vectors; one that ends among them, and
\* two that go on behind them, one of which then lands in the monitor.
MCExecutables ==
  { <<Vectors, Program, Data>>,
    <<Section("PM", 7, <<1, 1, 1, 0, 0, 0>>)>>,
    <<Data, Section("DM", 6, <<1, 1, 1, 1, 1, 1>>)>>,
    <<Section("PM", 6, <<1, 1, 1, 0, 0, 0>>)>>,
    <<Section("PM", 0, <<1, 0, 1>>)>>,
    <<Section("PM", 0, <<1, 1, 0, 1, 0, 1, 1, 1, 1>>)>>,
    <<Section("PM", 1, <<1, 1, 0, 1, 0, 1>>)>> }
Zeroed(space, vaddr, size) ==
  [space |-> space, vaddr |-> vaddr, size |-> size, data |-> <<>>]
Sized(s) ==
  [space |-> s.space, vaddr |-> s.vaddr, size |-> Len(s.data) \div WordSize[s.space],
   data |-> s.data]

\* Sections of both memories, the last of each before others, after others,
\* and without data; an image without a section of data memory.
MCImages ==
  { <<Sized(Program), Sized(Data), Sized(Section("PM", 5, <<1, 0, 0>>))>>,
    <<Sized(Data), Sized(Vectors), Zeroed("PM", 5, 2), Sized(Program)>>,
    <<Zeroed("DM", 4, 3), Sized(Vectors), Zeroed("DM", 3, 1)>>,
    <<Sized(Vectors), Sized(Program)>> }
\* Ranges of both memories, one that wraps a sum of program words, one that is too
\* long for the buffer, and one that leaves no room for its check sum.
MCUploadLists ==
  { <<MemoryRange("PM", 5, 3)>>, <<MemoryRange("DM", 2, 2), MemoryRange("PM", 0, 1)>>,
    <<MemoryRange("PM", 1, 1), MemoryRange("PM", 0, 5)>>, <<MemoryRange("DM", 0, 6)>> }
=============================================================================
