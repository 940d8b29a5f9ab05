--------------------------- MODULE ByteFileProofs ---------------------------
(***************************************************************************)
(* Whatever the header of a file says, the interpreter takes instructions  *)
(* from the code section only.  Proved for every width of size_t and every *)
(* set of files.                                                           *)
(***************************************************************************)
EXTENDS ByteFile, TLAPS

\* What ByteFile::init establishes: the tests compare sums that may have wrapped
\* around, but the code begins where the last of these sums says and ends with the file.
CodeIsSuffix ==
  status = "loaded" =>
    /\ code \in 0 .. sizeBytes
    /\ codeSizeBytes = sizeBytes - code
    /\ instructionPointer \in code .. sizeBytes

LoaderInv ==
  /\ sizeBytes \in FileSizes
  /\ header.strings \in Int /\ header.symbols \in Int
  /\ CodeIsSuffix
  /\ status = "new" => read = Nothing
  /\ InstructionsInCode

\* What of the assumption the proofs use.
LEMMA Sizes ==
  /\ Modulus \in Nat /\ Modulus > 0 /\ IntBytes \in Nat \ {0}
  /\ \A n \in FileSizes : n \in Nat /\ n < Modulus
<1>1. Modulus \in Nat /\ IntBytes \in Nat \ {0} /\ HeaderBytes + 2 * IntBytes < Modulus
  BY FileAssumption
<1>2. Modulus > 0
  BY <1>1 DEF HeaderBytes
<1>3. ASSUME NEW n \in FileSizes
      PROVE  n \in Nat /\ n < Modulus
  <2>1. n \in Nat /\ 2 * n < Modulus
    BY FileAssumption
  <2> QED
    BY <1>1, <2>1
<1> QED
  BY <1>1, <1>2, <1>3

\* size_t holds what it is given modulo its width, and what fits as it is.
LEMMA SizeTRange ==
  ASSUME NEW x \in Int
  PROVE  SizeT(x) \in 0 .. (Modulus - 1)
BY Sizes DEF SizeT

LEMMA SizeTExact ==
  ASSUME NEW x \in 0 .. (Modulus - 1)
  PROVE  SizeT(x) = x
BY Sizes DEF SizeT

\* The initial states satisfy the invariant: nothing has been loaded.
LEMMA LoaderStart == Init => LoaderInv
<1> SUFFICES ASSUME Init PROVE LoaderInv
  OBVIOUS
<1>1. Int32 \subseteq Int
  BY Sizes DEF Int32
<1> QED
  BY <1>1 DEF Init, LoaderInv, CodeIsSuffix, InstructionsInCode, Nothing

\* A file that init() accepts ends with its code.
LEMMA LoadStep == LoaderInv /\ Load => LoaderInv'
<1> SUFFICES ASSUME LoaderInv, Load PROVE LoaderInv'
  OBVIOUS
<1> DEFINE strings == SizeT(HeaderBytes + SymbolTableBytes)
           end == SizeT(strings + SizeT(header.strings))
<1>1. UNCHANGED <<sizeBytes, header, read>> /\ read = Nothing
  BY DEF LoaderInv, Load, Reject, file
<1>2. CASE status' = "rejected"
  BY <1>1, <1>2 DEF LoaderInv, CodeIsSuffix, InstructionsInCode
<1>3. CASE status' # "rejected"
  <2>1. /\ ~Exceeds(strings, SizeT(header.strings))
        /\ code' = end /\ codeSizeBytes' = SizeT(sizeBytes - end)
        /\ instructionPointer' = end
    BY <1>3 DEF Load, Reject
  <2>2. strings \in Int
    <3>1. SymbolTableBytes \in Int
      <4>1. SizeT(header.symbols) \in Int
        BY SizeTRange DEF LoaderInv
      <4>2. SizeT(header.symbols) * 2 * IntBytes \in Int
        BY <4>1, Sizes
      <4> QED
        BY <4>2, SizeTRange, Sizes DEF SymbolTableBytes
    <3>2. HeaderBytes + SymbolTableBytes \in Int
      BY <3>1, Sizes DEF HeaderBytes
    <3> QED
      BY <3>2, SizeTRange
  <2>3. end \in 0 .. (Modulus - 1)
    <3>1. SizeT(header.strings) \in Int
      BY SizeTRange DEF LoaderInv
    <3> QED
      BY <2>2, <3>1, SizeTRange
  <2>4. end <= sizeBytes /\ sizeBytes \in 0 .. (Modulus - 1)
    BY <2>1, <2>3, Sizes DEF Exceeds, LoaderInv
  <2>5. codeSizeBytes' = sizeBytes - end
    <3>1. sizeBytes - end \in 0 .. (Modulus - 1)
      BY <2>3, <2>4, Sizes
    <3> QED
      BY <3>1, <2>1, SizeTExact
  <2> HIDE DEF end
  <2> QED
    BY <1>1, <2>1, <2>3, <2>4, <2>5 DEF LoaderInv, CodeIsSuffix, InstructionsInCode, Nothing
<1> QED
  BY <1>2, <1>3

\* A jump stays in the code: getAddressFor compares the offset with its size.
LEMMA GoToAddressStep ==
  ASSUME NEW offset \in 0 .. (Modulus - 1), LoaderInv, GoToAddress(offset)
  PROVE  LoaderInv'
<1>1. UNCHANGED <<sizeBytes, header, code, codeSizeBytes>> /\ status = "loaded" /\ status' # "new"
  BY DEF GoToAddress, Error, file, sections
<1>2. CASE status' = "error"
  BY <1>1, <1>2 DEF LoaderInv, CodeIsSuffix, InstructionsInCode
<1>3. CASE status' # "error"
  <2>1. offset < codeSizeBytes /\ instructionPointer' = code + offset /\ read' = Nothing
    BY <1>3 DEF GoToAddress, Error, AddressInCode
  <2>2. sizeBytes \in Nat
    BY Sizes DEF LoaderInv
  <2> QED
    BY <1>1, <2>1, <2>2, Sizes DEF LoaderInv, CodeIsSuffix, InstructionsInCode, Nothing
<1> QED
  BY <1>2, <1>3

\* A byte or a word that readByte or readWord takes ends where the code ends at the latest.
LEMMA ReadCodeStep ==
  ASSUME NEW n \in {1, IntBytes}, LoaderInv, ReadCode(n)
  PROVE  LoaderInv'
<1>1. UNCHANGED <<sizeBytes, header, code, codeSizeBytes>> /\ status = "loaded" /\ status' # "new"
  BY DEF ReadCode, Error, file, sections
<1>2. CASE status' = "error"
  BY <1>1, <1>2 DEF LoaderInv, CodeIsSuffix, InstructionsInCode
<1>3. CASE status' # "error"
  <2>1. /\ instructionPointer <= codeEnd - n
        /\ instructionPointer' = instructionPointer + n
        /\ read' = [section |-> "code", bytes |-> instructionPointer .. instructionPointer + n - 1]
    <3>1. ~TooFar(n)
      BY <1>3 DEF ReadCode, Error
    <3>2. codeEnd - n \in Int /\ instructionPointer \in Int
      BY <1>1, Sizes DEF LoaderInv, CodeIsSuffix, codeEnd
    <3> QED
      BY <3>1, <3>2, Sizes DEF ReadCode, TooFar, Reads
  <2>2. sizeBytes \in Nat /\ codeEnd = sizeBytes /\ n \in Nat /\ codeEnd' = sizeBytes
    BY <1>1, Sizes DEF LoaderInv, CodeIsSuffix, codeEnd
  <2>3. code \in 0 .. sizeBytes /\ instructionPointer \in code .. sizeBytes
    BY <1>1 DEF LoaderInv, CodeIsSuffix
  <2>4. InstructionsInCode'
    BY <1>1, <2>1, <2>2, <2>3 DEF InstructionsInCode, InFile
  <2> QED
    BY <1>1, <2>1, <2>2, <2>3, <2>4 DEF LoaderInv, CodeIsSuffix
<1> QED
  BY <1>2, <1>3

\* Taking a string does not touch the code.
LEMMA GetStringAtStep ==
  ASSUME NEW offset \in 0 .. (Modulus - 1), LoaderInv, GetStringAt(offset)
  PROVE  LoaderInv'
<1>1. /\ UNCHANGED <<sizeBytes, header, code, codeSizeBytes, instructionPointer>>
      /\ status = "loaded" /\ status' \in {"loaded", "error"}
      /\ status' = "loaded" => read'.section = "strings"
  BY DEF GetStringAt, Error, Reads, file, sections
<1> QED
  BY <1>1 DEF LoaderInv, CodeIsSuffix, InstructionsInCode

\* The invariant of the loader and of the instruction pointer.
THEOREM LoaderInvariant == Spec => []LoaderInv
<1>1. LoaderInv /\ [Next]_byteFileVars => LoaderInv'
  <2> SUFFICES ASSUME LoaderInv, [Next]_byteFileVars PROVE LoaderInv'
    OBVIOUS
  <2>1. CASE Load
    BY <2>1, LoadStep
  <2>2. CASE \E offset \in 0 .. (Modulus - 1) : GoToAddress(offset) \/ GetStringAt(offset)
    BY <2>2, GoToAddressStep, GetStringAtStep
  <2>3. CASE \E n \in {1, IntBytes} : ReadCode(n)
    BY <2>3, ReadCodeStep
  <2>4. CASE UNCHANGED byteFileVars
    BY <2>4 DEF LoaderInv, CodeIsSuffix, InstructionsInCode, InFile, codeEnd, byteFileVars, file, sections
  <2> QED
    BY <2>1, <2>2, <2>3, <2>4 DEF Next
<1> QED
  BY <1>1, LoaderStart, PTL DEF Spec

\* Interpreter::readByte and readWord read inside the code, which is inside the file,
\* whatever header ByteFile::init has accepted and wherever the program jumps.
THEOREM InstructionsAreInCode == Spec => []InstructionsInCode
BY LoaderInvariant, PTL DEF LoaderInv

-----------------------------------------------------------------------------
(* The sections                                                             *)

\* What init() makes of a header without negative sizes: no sum wraps around, so that
\* the sections have the sizes that the header says.
Divided ==
  status = "loaded" /\ WellSized =>
    /\ stringTable = HeaderBytes + header.symbols * 2 * IntBytes
    /\ stringTableSizeBytes = header.strings
    /\ code = stringTable + header.strings
    /\ codeSizeBytes = sizeBytes - code

SectionsInv ==
  /\ header.strings \in Int32 /\ header.symbols \in Int32
  /\ Divided
  /\ StringsInTable

LEMMA Int32Range ==
  ASSUME NEW x \in Int32
  PROVE  x \in Int /\ 2 * x < Modulus
<1>1. 2 * (Modulus \div 2) <= Modulus /\ Modulus \div 2 \in Int
  BY Sizes
<1> QED
  BY <1>1, Sizes DEF Int32

\* A table of public symbols whose size can be represented.
LEMMA SymbolsExact ==
  ASSUME LoaderInv, SectionsInv, WellSized
  PROVE  /\ SymbolTableBytes = header.symbols * 2 * IntBytes /\ SymbolTableBytes \in Nat
         /\ SizeT(HeaderBytes + SymbolTableBytes) = HeaderBytes + SymbolTableBytes
<1>1. header.symbols \in Nat /\ HeaderBytes \in Nat
  BY Int32Range, Sizes DEF WellSized, SectionsInv, HeaderBytes
<1> DEFINE s == header.symbols
           b == s * 2 * IntBytes
<1>2. b \in Nat /\ s <= b
  <2>1. s * 2 \in Nat /\ s <= s * 2
    BY <1>1
  <2>2. PICK p \in Nat : p = s * 2 /\ s <= p
    BY <2>1
  <2>3. p * IntBytes \in Nat /\ p <= p * IntBytes
    BY <2>2, Sizes
  <2> HIDE DEF s
  <2> QED
    BY <1>1, <2>2, <2>3 DEF s
<1>3. HeaderBytes + b < Modulus
  BY DEF WellSized
<1> HIDE DEF b
<1>4. SizeT(s) = s
  BY <1>1, <1>2, <1>3, Sizes, SizeTExact
<1>5. SymbolTableBytes = SizeT(b)
  BY <1>4 DEF SymbolTableBytes, b
<1>6. SizeT(b) = b /\ SizeT(HeaderBytes + b) = HeaderBytes + b
  BY <1>1, <1>2, <1>3, Sizes, SizeTExact
<1> QED
  BY <1>2, <1>5, <1>6 DEF b

\* init() accepts a well-sized header only if the file is large enough.
LEMMA LoadDivides == LoaderInv /\ SectionsInv /\ Load => SectionsInv'
<1> SUFFICES ASSUME LoaderInv, SectionsInv, Load PROVE SectionsInv'
  OBVIOUS
<1>1. UNCHANGED <<sizeBytes, header, read>> /\ read = Nothing
  BY DEF LoaderInv, Load, Reject, file
<1>2. StringsInTable'
  BY <1>1 DEF StringsInTable, Nothing
<1>3. CASE status' = "rejected"
  BY <1>1, <1>2, <1>3 DEF SectionsInv, Divided
<1>4. CASE ~WellSized
  BY <1>1, <1>2, <1>4 DEF SectionsInv, Divided, WellSized
<1>5. CASE status' # "rejected" /\ WellSized
  <2> DEFINE strings == SizeT(HeaderBytes + SymbolTableBytes)
             end == SizeT(strings + SizeT(header.strings))
  <2>1. /\ ~Exceeds(HeaderBytes, SymbolTableBytes)
        /\ ~Exceeds(strings, SizeT(header.strings))
        /\ stringTable' = strings /\ stringTableSizeBytes' = SizeT(header.strings)
        /\ code' = end /\ codeSizeBytes' = SizeT(sizeBytes - end)
    BY <1>5 DEF Load, Reject
  <2>2. /\ strings = HeaderBytes + header.symbols * 2 * IntBytes
        /\ strings = HeaderBytes + SymbolTableBytes
        /\ SymbolTableBytes \in Nat /\ HeaderBytes \in Nat
    BY <1>5, SymbolsExact, Sizes DEF HeaderBytes
  <2>3. sizeBytes \in Nat /\ 2 * sizeBytes < Modulus /\ Modulus \in Nat
    BY FileAssumption DEF LoaderInv
  <2>4. strings \in Nat /\ strings <= sizeBytes
    BY <2>1, <2>2, <2>3 DEF Exceeds
  <2>5. SizeT(header.strings) = header.strings /\ header.strings \in Nat
        /\ 2 * header.strings < Modulus
    <3>1. header.strings \in Nat /\ 2 * header.strings < Modulus
      BY <1>5, Int32Range DEF WellSized, SectionsInv
    <3>2. header.strings \in 0 .. (Modulus - 1)
      BY <2>3, <3>1
    <3> QED
      BY <3>1, <3>2, SizeTExact
  <2>6. end = strings + header.strings /\ end \in Nat
    <3>1. strings + header.strings \in 0 .. (Modulus - 1)
      BY <2>3, <2>4, <2>5
    <3> QED
      BY <2>5, <3>1, SizeTExact
  <2>7. end <= sizeBytes
    BY <2>1, <2>3, <2>6 DEF Exceeds
  <2>8. SizeT(sizeBytes - end) = sizeBytes - end
    <3>1. sizeBytes - end \in 0 .. (Modulus - 1)
      BY <2>3, <2>6, <2>7
    <3> QED
      BY <3>1, SizeTExact
  <2> HIDE DEF strings, end
  <2>9. Divided'
    BY <1>1, <2>1, <2>2, <2>5, <2>6, <2>8 DEF Divided
  <2> QED
    BY <1>1, <1>2, <2>9 DEF SectionsInv
<1> QED
  BY <1>3, <1>4, <1>5

\* std::find stops in a table that ends with the size that the header says.
LEMMA StringsStep ==
  ASSUME NEW offset \in 0 .. (Modulus - 1), LoaderInv, SectionsInv, GetStringAt(offset)
  PROVE  SectionsInv'
<1>1. /\ UNCHANGED <<header, sizeBytes, stringTable, stringTableSizeBytes, code, codeSizeBytes>>
      /\ status = "loaded" /\ status' \in {"loaded", "error"}
  BY DEF GetStringAt, Error, Reads, file, sections
<1>2. Divided'
  BY <1>1 DEF SectionsInv, Divided, WellSized
<1>3. CASE status' = "error"
  <2>1. UNCHANGED read
    BY <1>1, <1>3 DEF GetStringAt, Error
  <2> QED
    BY <1>1, <1>2, <2>1 DEF SectionsInv, StringsInTable, WellSized
<1>4. CASE ~WellSized
  BY <1>1, <1>2, <1>4 DEF SectionsInv, StringsInTable, WellSized
<1>5. CASE status' = "loaded" /\ WellSized
  <2> DEFINE from == stringTable + offset
  <2>1. /\ offset < stringTableSizeBytes
        /\ from <= TableEnd => Terminated(offset)
        /\ read' = [section |-> "strings",
                    bytes |-> from .. (IF Terminated(offset) THEN nul ELSE sizeBytes)]
    <3>1. ~(offset >= stringTableSizeBytes) /\ ~(from <= TableEnd /\ ~Terminated(offset))
          /\ read' = [section |-> "strings",
                      bytes |-> from .. (IF Terminated(offset) THEN nul ELSE sizeBytes)]
      BY <1>5 DEF GetStringAt, Error, Reads
    <3>2. stringTableSizeBytes \in Int
      BY <1>1, <1>5, Int32Range DEF SectionsInv, Divided
    <3> QED
      BY <3>1, <3>2, Sizes
  <2>2. /\ stringTable \in Nat /\ stringTableSizeBytes \in Nat
        /\ code = stringTable + stringTableSizeBytes
    <3>1. /\ stringTable = HeaderBytes + SymbolTableBytes /\ SymbolTableBytes \in Nat
          /\ stringTableSizeBytes = header.strings /\ code = stringTable + header.strings
      BY <1>1, <1>5, SymbolsExact DEF SectionsInv, Divided
    <3> QED
      BY <1>5, <3>1, Int32Range, Sizes DEF HeaderBytes, SectionsInv, WellSized
  <2>3. TableEnd = code
    <3>1. code \in 0 .. (Modulus - 1)
      BY <1>1, <2>2, Sizes DEF LoaderInv, CodeIsSuffix
    <3> QED
      BY <2>2, <3>1, SizeTExact DEF TableEnd
  <2>4. Terminated(offset) /\ nul \in from .. (code - 1)
    <3>1. from <= TableEnd
      BY <2>1, <2>2, <2>3, Sizes
    <3> QED
      BY <2>1, <2>3, <3>1 DEF Terminated
  <2>5. StringsInTable'
    BY <1>1, <2>1, <2>2, <2>4 DEF StringsInTable
  <2> QED
    BY <1>1, <1>2, <2>5 DEF SectionsInv
<1> QED
  BY <1>1, <1>3, <1>4, <1>5

\* Taking instructions and jumping touch neither the sections nor the strings.
LEMMA CodeKeepsSections ==
  ASSUME LoaderInv, SectionsInv,
         \/ \E offset \in 0 .. (Modulus - 1) : GoToAddress(offset)
         \/ \E n \in {1, IntBytes} : ReadCode(n)
  PROVE  SectionsInv'
<1>1. /\ UNCHANGED <<header, sizeBytes, stringTable, stringTableSizeBytes, code, codeSizeBytes>>
      /\ status = "loaded"
      /\ read' = read \/ read'.section # "strings"
  BY DEF GoToAddress, ReadCode, Error, Reads, Nothing, file, sections
<1> QED
  BY <1>1 DEF SectionsInv, Divided, StringsInTable, WellSized

THEOREM SectionsInvariant == Spec => []SectionsInv
<1>1. Init => SectionsInv
  <2> SUFFICES ASSUME Init PROVE SectionsInv
    OBVIOUS
  <2> QED
    BY DEF Init, SectionsInv, Divided, StringsInTable, Nothing
<1>2. LoaderInv /\ SectionsInv /\ [Next]_byteFileVars => SectionsInv'
  <2> SUFFICES ASSUME LoaderInv, SectionsInv, [Next]_byteFileVars PROVE SectionsInv'
    OBVIOUS
  <2>1. CASE Load
    BY <2>1, LoadDivides
  <2>2. CASE \E offset \in 0 .. (Modulus - 1) : GetStringAt(offset)
    BY <2>2, StringsStep
  <2>3. CASE \/ \E offset \in 0 .. (Modulus - 1) : GoToAddress(offset)
             \/ \E n \in {1, IntBytes} : ReadCode(n)
    BY <2>3, CodeKeepsSections
  <2>4. CASE UNCHANGED byteFileVars
    BY <2>4 DEF SectionsInv, Divided, StringsInTable, WellSized, byteFileVars, file, sections
  <2> QED
    BY <2>1, <2>2, <2>3, <2>4 DEF Next
<1> QED
  BY <1>1, <1>2, LoaderInvariant, PTL DEF Spec

\* ByteFile::init divides every file it accepts into header, symbols, strings and code,
\* with the sizes of the header, as long as these are not negative and can be represented.
THEOREM SectionsAreTheFile == Spec => []SectionsTileFile
<1>1. LoaderInv /\ SectionsInv => SectionsTileFile
  <2> SUFFICES ASSUME LoaderInv, SectionsInv, status = "loaded", WellSized
               PROVE  /\ code = SectionBytes /\ code = stringTable + header.strings
                      /\ codeEnd = sizeBytes /\ stringTableSizeBytes = header.strings
    BY DEF SectionsTileFile
  <2>1. code \in Int /\ sizeBytes \in Int
    BY Sizes DEF LoaderInv, CodeIsSuffix
  <2> QED
    BY <2>1 DEF SectionsInv, Divided, SectionBytes, codeEnd
<1> QED
  BY <1>1, LoaderInvariant, SectionsInvariant, PTL

\* ByteFile::getStringAt returns strings that end in the string table, in every file with
\* such a header.
THEOREM StringsAreInTable == Spec => []StringsInTable
BY SectionsInvariant, PTL DEF SectionsInv

=============================================================================
