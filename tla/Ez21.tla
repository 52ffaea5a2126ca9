-------------------------------- MODULE Ez21 --------------------------------
(***************************************************************************)
(* ez21 (ez21/ez21.c) and the monitor of a 218x EZ-Kit on the two ends of  *)
(* a serial line: main() asks whether the kit is alive, and then downloads *)
(* an executable and starts it, or uploads memory to a file.  A 219x has   *)
(* no monitor: its boot loader takes the executable block by block.  The   *)
(* line keeps the order of the bytes, but it may damage or lose them, and  *)
(* the kit may answer after received() gave up.  The monitor and the       *)
(* loader are not part of the repository: they are what ez21 expects.      *)
(***************************************************************************)
EXTENDS Integers, Sequences, FiniteSetsExt

CONSTANTS
  Base,         \* number of values of a byte
  MemSize,      \* words in each memory space of the kit
  TableTop,     \* table_top: words in the interrupt vector table
  SwapTable,    \* swap_table: where the monitor keeps its shadow
  ProgramTop,   \* program_top
  DataTop,      \* data_top
  Executables,  \* the executables that may be downloaded to a 218x
  Images,       \* the executables that a 219x may be booted with
  UploadLists,  \* the memory lists that may be uploaded
  BufferSize,   \* sizeof(buffer): bytes of an answer that the host can take
  MaxFaults     \* bound: bytes the line damages or loses

Space == {"PM", "DM"}
Byte == 0 .. Base - 1
WordSize == [PM |-> 3, DM |-> 2]
Address == 0 .. MemSize - 1

\* The first two bytes of the answer "ok".
Ok == <<Base, Base + 1>>

ASSUME KitAssumption ==
  /\ Base \in Nat \ {0, 1} /\ MemSize \in Nat \ {0} /\ MaxFaults \in Nat
  /\ BufferSize \in Nat
  /\ TableTop \in Address /\ DataTop \in Address
  /\ ProgramTop \in 0 .. SwapTable /\ SwapTable \in Address
  /\ SwapTable + TableTop \in Address

\* Two sections, of so many words, share no address: what ld21 promises.
Disjoint(s, n, t, m) ==
  s.space # t.space \/ s.vaddr + n <= t.vaddr \/ t.vaddr + m <= s.vaddr

ASSUME ExecutableAssumption ==
  \A exe \in Executables :
    /\ exe \in Seq([space : Space, vaddr : Address, data : Seq(Byte)])
    /\ \A i \in DOMAIN exe : Len(exe[i].data) % WordSize[exe[i].space] = 0
    /\ \A i, j \in DOMAIN exe : i # j =>
         Disjoint(exe[i], Len(exe[i].data) \div WordSize[exe[i].space],
                  exe[j], Len(exe[j].data) \div WordSize[exe[j].space])

\* How many values n bytes have.
Values(n) ==
  CASE n = 0 -> 1 [] n = 1 -> Base [] n = 2 -> Base * Base [] n = 3 -> Base * Base * Base

\* A section of an image may have no data in the file.  The header of a block
\* has two bytes for the words and three for the address.
ASSUME ImageAssumption ==
  \A exe \in Images :
    /\ exe \in Seq([space : Space, vaddr : Address, size : Nat, data : Seq(Byte)])
    /\ \A i \in DOMAIN exe :
         /\ exe[i].size < Values(2) /\ exe[i].vaddr < Values(3)
         /\ exe[i].vaddr + exe[i].size <= MemSize
         /\ Len(exe[i].data) \in {0, exe[i].size * WordSize[exe[i].space]}
    /\ \A i, j \in DOMAIN exe : i # j =>
         Disjoint(exe[i], exe[i].size, exe[j], exe[j].size)
ASSUME UploadAssumption ==
  UploadLists \subseteq Seq([space : Space, start : Address, length : Nat \ {0}])

VARIABLES
  pc,       \* what the host does
  machine,  \* the machine of the executable
  exe,      \* the executable to download, <<>> for an upload
  ackstring, \* what a booted program says when it runs, <<>> for nothing
  list,     \* the memory list to upload, <<>> for a download
  at,       \* the section of either that is next
  pieces,   \* what download_go has still to send of its section
  buffer,   \* the bytes of the buffer that a check may read
  file,     \* the bytes written to the output file
  toKit,    \* the commands on the line
  fromKit,  \* the bytes on the line to the host
  memory,   \* the memory of the kit
  running,  \* the kit runs the downloaded program
  finals,   \* the memories whose final block the loader has
  faults,   \* bytes damaged or lost so far
  misled    \* history: a command came to the kit with another place in its header

jobVars == <<machine, exe, list, ackstring>>
hostVars == <<pc, at, pieces, buffer, file>>
faultVars == <<faults, misled>>
lineVars == <<toKit, fromKit, faultVars>>
kitVars == <<memory, running, finals>>
vars == <<jobVars, hostVars, lineVars, kitVars>>

----------------------------------------------------------------------------
(* Words and check sums. *)

\* The word of n bytes from byte i + 1 on, the high byte first.
WordAt(bytes, i, n) ==
  LET value[k \in 0 .. n] ==
        IF k = 0 THEN 0 ELSE Base * value[k - 1] + bytes[i + k]
  IN value[n]

WordCount(bytes, n) == Len(bytes) \div n
Words(bytes, n) == [i \in 1 .. WordCount(bytes, n) |-> WordAt(bytes, (i - 1) * n, n)]

Bytes(word, n) == [k \in 1 .. n |-> (word \div Values(n - k)) % Base]

BytesOf(words, n) ==
  [k \in 1 .. n * Len(words) |->
     Bytes(words[((k - 1) \div n) + 1], n)[((k - 1) % n) + 1]]

check_sum(bytes, n) ==
  LET sum[i \in 0 .. WordCount(bytes, n)] ==
        IF i = 0 THEN 0 ELSE sum[i - 1] + Words(bytes, n)[i]
  IN sum[WordCount(bytes, n)] % Values(n)

First(q, n) == SubSeq(q, 1, IF n < Len(q) THEN n ELSE Len(q))
Last(q, n) == SubSeq(q, Len(q) - n + 1, Len(q))
Rest(q, n) == SubSeq(q, n + 1, Len(q))

----------------------------------------------------------------------------
(* write_drain and received. *)

\* write_drain discards what the host has not read.
Send(command) == toKit' = Append(toKit, command) /\ fromKit' = <<>>

\* received(n) ends with n bytes, or when a second passes without a byte; it
\* leaves the bytes in the buffer.
Received(n) == First(fromKit, n)
Receive(n) ==
  /\ fromKit' = Rest(fromKit, n)
  /\ buffer' = Received(n) \o Rest(buffer, Len(Received(n)))
  /\ UNCHANGED toKit

----------------------------------------------------------------------------
(* The host. *)

\* alive(), the first command of main().
Alive ==
  /\ pc = "start" /\ machine = "218X"
  /\ pc' = "alive"
  /\ Send([cmd |-> "OK"])
  /\ UNCHANGED <<jobVars, at, pieces, buffer, file, kitVars, faultVars>>

AliveReply ==
  /\ pc = "alive"
  /\ Receive(6)
  /\ pc' = IF First(fromKit, 2) # Ok THEN "failed"
           ELSE IF list = <<>> THEN "section" ELSE "upload"
  /\ UNCHANGED <<jobVars, at, pieces, file, kitVars, faultVars>>

\* The top of the memory a download may fill.
Top == [PM |-> ProgramTop, DM |-> DataTop]

\* Mutant of Fits: only the beginning of the section.
FitsMutant(s) == s.vaddr < Top[s.space]

Fits(s) == s.vaddr + WordCount(s.data, WordSize[s.space]) <= Top[s.space]

\* A command, unless it has no data.
Piece(start, data) ==
  IF data = <<>> THEN <<>> ELSE <<[start |-> start, data |-> data]>>

\* Mutant of Pieces: the vectors go to their table, not to its shadow.
PiecesMutant(s) == Piece(s.vaddr, s.data)

\* The commands for a section: a program section that begins in the vector
\* table goes to the shadow table as far as the table reaches, and the rest to
\* an address that counts the bytes, not the words, that were sent.
Pieces(s) ==
  LET vectors == (TableTop - s.vaddr) * WordSize[s.space] IN
  IF s.space = "PM" /\ s.vaddr < TableTop
  THEN Piece(s.vaddr + SwapTable, First(s.data, vectors))
         \o Piece(s.vaddr + SwapTable + vectors, Rest(s.data, vectors))
  ELSE Piece(s.vaddr, s.data)

\* A section that ends inside the vector table: download_go sends the whole
\* table, and then subtracts from an unsigned length what was not there.
EndsInTable(s) ==
  /\ s.space = "PM"
  /\ s.vaddr + WordCount(s.data, WordSize["PM"]) < TableTop

\* download_go: the next section of the executable.
NextSection ==
  /\ pc = "section" /\ at <= Len(exe)
  /\ LET s == exe[at] IN
     /\ buffer' = s.data \o Rest(buffer, Len(s.data))
     /\ pieces' = Pieces(s)
     /\ pc' = IF ~ Fits(s) THEN "failed"
              ELSE IF EndsInTable(s) THEN "undefined" ELSE "piece"
  /\ UNCHANGED <<jobVars, at, file, lineVars, kitVars>>

\* download_program, download_data.
Download ==
  /\ pc = "piece" /\ pieces # <<>>
  /\ pc' = "check"
  /\ Send([cmd |-> "D", space |-> exe[at].space, start |-> Head(pieces).start,
           data |-> Head(pieces).data])
  /\ UNCHANGED <<jobVars, at, pieces, buffer, file, kitVars, faultVars>>

\* The test of the answer: an error is both a short answer and a wrong word in
\* the buffer, whatever that word is.
Rejects(n) ==
  /\ Len(Received(n)) # n
  /\ check_sum(Head(pieces).data, n) # WordAt(buffer', 0, n)

DownloadReply ==
  /\ pc = "check"
  /\ LET n == WordSize[exe[at].space] IN
     /\ Receive(n)
     /\ IF Rejects(n) THEN pc' = "failed" /\ UNCHANGED pieces
        ELSE pc' = "piece" /\ pieces' = Tail(pieces)
  /\ UNCHANGED <<jobVars, at, file, kitVars, faultVars>>

\* Mutant of EndOfSection: the same section again.
EndOfSectionMutant ==
  /\ pc = "piece" /\ pieces = <<>>
  /\ pc' = "section"
  /\ UNCHANGED <<jobVars, at, pieces, buffer, file, lineVars, kitVars>>

EndOfSection ==
  /\ pc = "piece" /\ pieces = <<>>
  /\ pc' = "section" /\ at' = at + 1
  /\ UNCHANGED <<jobVars, pieces, buffer, file, lineVars, kitVars>>

\* go(), whose answer download_go ignores.
Go ==
  /\ pc = "section" /\ at > Len(exe)
  /\ pc' = "go"
  /\ Send([cmd |-> "GO"])
  /\ UNCHANGED <<jobVars, at, pieces, buffer, file, kitVars, faultVars>>

GoReply ==
  /\ pc = "go"
  /\ pc' = "done"
  /\ Receive(2)
  /\ UNCHANGED <<jobVars, at, pieces, file, kitVars, faultVars>>

\* The bytes of the next range of the memory list.
RangeBytes == list[at].length * WordSize[list[at].space]

\* upload_file: the next range of the memory list.  A range that fits the buffer
\* is asked for, but received() asserts that its check sum fits, too.
Upload ==
  /\ pc = "upload" /\ at <= Len(list) /\ RangeBytes <= BufferSize
  /\ pc' = IF RangeBytes + WordSize[list[at].space] > BufferSize THEN "aborted" ELSE "data"
  /\ Send([cmd |-> "U", space |-> list[at].space, start |-> list[at].start,
           length |-> list[at].length])
  /\ UNCHANGED <<jobVars, at, pieces, buffer, file, kitVars, faultVars>>

RefuseUpload ==
  /\ pc = "upload" /\ at <= Len(list) /\ RangeBytes > BufferSize
  /\ pc' = "failed" /\ file' = <<>>
  /\ UNCHANGED <<jobVars, at, pieces, buffer, lineVars, kitVars>>

\* Mutant of GoodUpload: the check sum is not compared.
GoodUploadMutant(data, check, n) == TRUE

\* The test of the check sum behind uploaded data.
GoodUpload(data, check, n) == check_sum(data, n) = WordAt(check, 0, n)

\* upload_program, upload_data: the bytes before the check sum, which check_sum
\* asserts to be whole words.
UploadReply ==
  /\ pc = "data"
  /\ LET n == WordSize[list[at].space]
         bytes == list[at].length * n
         got == Received(bytes + n)
         data == First(got, Len(got) - n)
     IN /\ Receive(bytes + n)
        /\ IF Len(got) > n /\ Len(data) % n # 0
           THEN pc' = "aborted" /\ UNCHANGED <<at, file>>
           ELSE IF Len(data) = bytes /\ GoodUpload(data, Last(got, n), n)
                THEN pc' = "upload" /\ at' = at + 1 /\ file' = file \o data
                ELSE pc' = "failed" /\ file' = <<>> /\ UNCHANGED at
  /\ UNCHANGED <<jobVars, pieces, kitVars, faultVars>>

EndUpload ==
  /\ pc = "upload" /\ at > Len(list)
  /\ pc' = "done"
  /\ UNCHANGED <<jobVars, at, pieces, buffer, file, lineVars, kitVars>>

----------------------------------------------------------------------------
(* The boot of a 219x. *)

\* boot_219X: the byte from which the loader takes the speed of the line.
Autobaud ==
  /\ pc = "start" /\ machine = "219X"
  /\ pc' = "autobaud"
  /\ Send([cmd |-> "AUTOBAUD"])
  /\ UNCHANGED <<jobVars, at, pieces, buffer, file, kitVars, faultVars>>

\* "OK", or its second byte when the first one was lost.
AutobaudReply ==
  /\ pc = "autobaud"
  /\ Receive(2)
  /\ pc' = IF Received(2) \in {Ok, Rest(Ok, 1)} THEN "control" ELSE "failed"
  /\ UNCHANGED <<jobVars, at, pieces, file, kitVars, faultVars>>

\* The section with which a memory ends.
LastIn(space) == Max({i \in DOMAIN exe : exe[i].space = space})

\* The sections whose blocks are held back: they come after all others, that
\* of program memory first.
Finals == {LastIn("PM"), LastIn("DM")}

\* The control word, without a byte of it that is not forced.
Control ==
  /\ pc = "control"
  /\ pc' = IF {exe[i].space : i \in DOMAIN exe} = Space THEN "block" ELSE "failed"
  /\ Send([cmd |-> "CONTROL"])
  /\ UNCHANGED <<jobVars, at, pieces, buffer, file, kitVars, faultVars>>

\* The bytes of the file with the low byte of each word first.  They are sent
\* by a buffer of whole words at a time.
LittleEndian(bytes, n) ==
  [k \in DOMAIN bytes |-> bytes[n * ((k - 1) \div n) + n - ((k - 1) % n)]]

SkipFinal ==
  /\ pc = "block" /\ at <= Len(exe) /\ at \in Finals
  /\ at' = at + 1
  /\ UNCHANGED <<jobVars, pc, pieces, buffer, file, lineVars, kitVars>>

\* send_219x_block, header and data.  It returns no value, and its caller stops
\* if that is zero.
SendBlock(i) ==
  /\ LET s == exe[i] IN
     Send([cmd |-> "BLOCK", space |-> s.space, final |-> i \in Finals,
           zeroed |-> s.data = <<>>, start |-> s.vaddr, words |-> s.size,
           data |-> LittleEndian(s.data, WordSize[s.space])])
  /\ at' = at + 1
  /\ pc' \in {"block", "failed"}
  /\ UNCHANGED <<jobVars, pieces, buffer, file, kitVars, faultVars>>

Block == pc = "block" /\ at <= Len(exe) /\ at \notin Finals /\ SendBlock(at)

FinalBlock ==
  /\ pc = "block"
  /\ \/ at = Len(exe) + 1 /\ SendBlock(LastIn("PM"))
     \/ at = Len(exe) + 2 /\ SendBlock(LastIn("DM"))

EndBoot ==
  /\ pc = "block" /\ at > Len(exe) + 2
  /\ pc' = IF ackstring = <<>> THEN "done" ELSE "ack"
  /\ UNCHANGED <<jobVars, at, pieces, buffer, file, lineVars, kitVars>>

AckReply ==
  /\ pc = "ack"
  /\ Receive(Len(ackstring))
  /\ pc' = IF Received(Len(ackstring)) = ackstring THEN "done" ELSE "failed"
  /\ UNCHANGED <<jobVars, at, pieces, file, kitVars, faultVars>>

----------------------------------------------------------------------------
(* The monitor of the kit, and the boot loader of a 219x. *)

Read(space, start, length) ==
  [i \in 1 .. length |-> memory[space][(start + i - 1) % MemSize]]

\* The memory with words stored from an address on.
Stored(m, start, words) ==
  [a \in Address |->
     IF \E i \in DOMAIN words : a = (start + i - 1) % MemSize
     THEN words[CHOOSE i \in DOMAIN words : a = (start + i - 1) % MemSize]
     ELSE m[a]]

\* "The contents of this table is swapped with the real vector table during a
\* go command".
Swapped(m) ==
  [a \in Address |->
     IF a < TableTop THEN m[SwapTable + a]
     ELSE IF a - SwapTable \in 0 .. TableTop - 1 THEN m[a - SwapTable] ELSE m[a]]

Answer(bytes) == fromKit' = fromKit \o bytes /\ toKit' = Tail(toKit)

Serve(cmd) ==
  /\ toKit # <<>> /\ ~ running /\ Head(toKit).cmd = cmd
  /\ UNCHANGED <<jobVars, hostVars, faultVars>>

KitAlive ==
  /\ Serve("OK")
  /\ Answer(Ok)
  /\ UNCHANGED kitVars

KitStore ==
  /\ Serve("D")
  /\ LET c == Head(toKit)
         n == WordSize[c.space]
     IN /\ memory' = [memory EXCEPT ![c.space] = Stored(@, c.start, Words(c.data, n))]
        /\ Answer(Bytes(check_sum(c.data, n), n))
  /\ UNCHANGED <<running, finals>>

KitRead ==
  /\ Serve("U")
  /\ LET c == Head(toKit)
         n == WordSize[c.space]
         data == BytesOf(Read(c.space, c.start, c.length), n)
     IN Answer(data \o Bytes(check_sum(data, n), n))
  /\ UNCHANGED kitVars

KitGo ==
  /\ Serve("GO")
  /\ memory' = [memory EXCEPT !["PM"] = Swapped(@)]
  /\ running' = TRUE
  /\ Answer(Ok)
  /\ UNCHANGED finals

LoaderStart ==
  /\ Serve("AUTOBAUD")
  /\ Answer(Ok)
  /\ UNCHANGED kitVars

LoaderControl ==
  /\ Serve("CONTROL")
  /\ Answer(<<>>)
  /\ UNCHANGED kitVars

\* The word of n bytes from byte i + 1 on, the low byte first.
LowFirst(bytes, i, n) ==
  LET value[k \in 0 .. n] ==
        IF k = 0 THEN 0 ELSE Base * value[k - 1] + bytes[i + n + 1 - k]
  IN value[n]

\* The words of a block: as many as its header says.
BlockWords(c) ==
  [i \in 1 .. c.words |->
     IF c.zeroed THEN 0
     ELSE LowFirst(c.data, (i - 1) * WordSize[c.space], WordSize[c.space])]

\* With the final blocks of both memories, the loader starts the program.
LoaderBlock ==
  /\ Serve("BLOCK")
  /\ LET c == Head(toKit) IN
     /\ memory' = [memory EXCEPT ![c.space] = Stored(@, c.start, BlockWords(c))]
     /\ finals' = IF c.final THEN finals \union {c.space} ELSE finals
     /\ running' = (finals' = Space)
     /\ Answer(IF running' THEN ackstring ELSE <<>>)

----------------------------------------------------------------------------
(* The line. *)

Fault ==
  /\ faults < MaxFaults
  /\ faults' = faults + 1
  /\ UNCHANGED <<jobVars, hostVars, kitVars>>

\* The first command of the line comes to the kit as another one.  The check sums
\* are of the data only: a damaged start goes unnoticed.
Damage(command) ==
  /\ toKit' = <<command>> \o Tail(toKit)
  /\ misled' = (misled \/ command.space # Head(toKit).space
                       \/ command.start # Head(toKit).start)
  /\ UNCHANGED fromKit

\* A byte of the data, or of the address, of a download changes.
DamageDownload ==
  /\ Fault
  /\ toKit # <<>> /\ Head(toKit).cmd = "D"
  /\ \/ \E i \in DOMAIN Head(toKit).data, b \in Byte :
          Damage([Head(toKit) EXCEPT !.data[i] = b])
     \/ \E start \in Address : Damage([Head(toKit) EXCEPT !.start = start])

\* A byte of the address, the length or the memory of an upload changes.
DamageUpload ==
  /\ Fault
  /\ toKit # <<>> /\ Head(toKit).cmd = "U"
  /\ \/ \E start \in Address : Damage([Head(toKit) EXCEPT !.start = start])
     \/ \E length \in 0 .. Values(2) - 1 :
          Damage([Head(toKit) EXCEPT !.length = length])
     \/ \E space \in Space : Damage([Head(toKit) EXCEPT !.space = space])

\* A byte of a command is lost, or one of its name damaged: the monitor does not
\* know the command, or waits for the rest of it.  That it takes data of a download
\* for what is missing of the header is left out.
LoseCommand ==
  /\ Fault
  /\ toKit # <<>>
  /\ toKit' = Tail(toKit)
  /\ UNCHANGED <<fromKit, misled>>

DamageReply ==
  /\ Fault
  /\ \E i \in DOMAIN fromKit, b \in Byte : fromKit' = [fromKit EXCEPT ![i] = b]
  /\ UNCHANGED <<toKit, misled>>

LoseReply ==
  /\ Fault
  /\ \E i \in DOMAIN fromKit :
       fromKit' = First(fromKit, i - 1) \o Rest(fromKit, i)
  /\ UNCHANGED <<toKit, misled>>

----------------------------------------------------------------------------

Finished == {"done", "failed", "aborted", "undefined"}

\* What is left on the line no longer matters.
Stopped == pc \in Finished /\ (toKit = <<>> \/ running) /\ UNCHANGED vars

\* What the memory of the kit holds at first: words of every value.
InitialMemory == [s \in Space |-> [a \in Address |-> a % Values(WordSize[s])]]

Init ==
  /\ pc = "start" /\ at = 1 /\ pieces = <<>> /\ file = <<>>
  /\ buffer = <<0, 0, 0>>
  /\ \/ exe \in Executables /\ list = <<>> /\ machine = "218X" /\ ackstring = <<>>
     \/ exe \in Images /\ list = <<>> /\ machine = "219X" /\ ackstring \in {<<>>, Ok}
     \/ list \in UploadLists /\ exe = <<>> /\ machine = "218X" /\ ackstring = <<>>
  /\ toKit = <<>> /\ fromKit = <<>> /\ faults = 0 /\ misled = FALSE
  /\ memory = InitialMemory /\ running = FALSE /\ finals = {}

Host ==
  \/ Alive \/ AliveReply
  \/ NextSection \/ Download \/ DownloadReply \/ EndOfSection \/ Go \/ GoReply
  \/ Upload \/ RefuseUpload \/ UploadReply \/ EndUpload
  \/ Autobaud \/ AutobaudReply \/ Control \/ SkipFinal \/ Block \/ FinalBlock
  \/ EndBoot \/ AckReply

Kit ==
  \/ KitAlive \/ KitStore \/ KitRead \/ KitGo
  \/ LoaderStart \/ LoaderControl \/ LoaderBlock

Line == DamageDownload \/ DamageUpload \/ LoseCommand \/ DamageReply \/ LoseReply

Next == Host \/ Kit \/ Line \/ Stopped

\* The host is one process that never waits longer than a second for a byte;
\* nothing is assumed of the kit.
Spec == Init /\ [][Next]_vars /\ WF_vars(Host)

----------------------------------------------------------------------------
(* Properties. *)

\* What the memory of a section has to be: zeros where a 219x has none in its
\* file.
Contents(s) ==
  IF machine = "219X" /\ s.data = <<>> THEN [i \in 1 .. s.size |-> 0]
  ELSE Words(s.data, WordSize[s.space])

\* The kit has every section of the executable at its address.
Loaded ==
  \A i \in DOMAIN exe :
    LET s == exe[i]
        words == Contents(s)
    IN \A k \in DOMAIN words : memory[s.space][s.vaddr + k - 1] = words[k]

\* A section with interrupt vectors and what follows them, which download_go
\* sends to an address in the range of the shadow table (ez21.c:719).
Straddles(s) ==
  s.space = "PM" /\ s.vaddr < TableTop
    /\ s.vaddr + Len(s.data) \div WordSize.PM > TableTop

\* A program that was started without a fault of the line finds every section
\* of the executable in its place, the interrupt vectors too, which went to the
\* shadow table (download_go, ez21.c:668-674): however late the kit answered, if
\* the vectors have a section of their own.  A 219x starts with the last final
\* block, when nothing may be missing (boot_219X, ez21.c:597-632).
RunsTheProgram ==
  running /\ faults = 0
    /\ (machine = "218X" => \A i \in DOMAIN exe : ~ Straddles(exe[i]))
    => Loaded

\* Until the program runs, a download never changes the memory of the monitor,
\* that above program_top and data_top, except for the shadow of the vectors
\* (download_go, ez21.c:698-703, 745-750), if the vectors have a section of
\* their own and the addresses of the commands came to the kit as they were sent.
MonitorIntact ==
  machine = "218X" /\ ~ running /\ ~ misled
    /\ (\A i \in DOMAIN exe : ~ Straddles(exe[i])) =>
    \A s \in Space : \A a \in Top[s] .. MemSize - 1 :
      (s = "PM" /\ a \in SwapTable .. SwapTable + TableTop - 1)
        \/ memory[s][a] = InitialMemory[s][a]

\* The bytes of the memory list in the memory of the kit.
Listed ==
  LET bytes[i \in 0 .. Len(list)] ==
        IF i = 0 THEN <<>>
        ELSE bytes[i - 1] \o BytesOf(Read(list[i].space, list[i].start, list[i].length),
                                     WordSize[list[i].space])
  IN bytes[Len(list)]

\* An upload over a line with at most one fault, of a byte of the answer or of the
\* length in a command too, writes exactly the memory it was asked for, or fails
\* (upload_program and upload_data, upload_file).  A fault in the rest of the
\* header of a command is not seen (misled): the kit then sends other memory,
\* with its right check sum (ez21.c:325).
UploadDetectsFault ==
  list # <<>> /\ pc = "done" /\ faults <= 1 /\ ~ misled => file = Listed

\* ez21 always ends: it never waits for a kit that does not answer.
Ends == <>(pc \in Finished)
=============================================================================
