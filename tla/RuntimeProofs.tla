--------------------------- MODULE RuntimeProofs ---------------------------
(***************************************************************************)
(* What the embedder and the collector see of the program's objects,       *)
(* proved for every value of the constants: the embedder's results stay    *)
(* readable and its bytecode runs the program it was made of; and an       *)
(* object is scanned as it is, however it changes under the visitor.       *)
(***************************************************************************)
EXTENDS Integers, Sequences, JSCJS, MCObject, TLAPS

-----------------------------------------------------------------------------
(* The conversions between bytecode and hexadecimal digits *)

\* The digits of a char: each reads as what was written, and together they are the char.
LEMMA DigitsOfChar ==
  ASSUME NEW c \in char
  PROVE  /\ (c % 256) \div 16 \in 0 .. 15 /\ (c % 256) % 16 \in 0 .. 15
         /\ toChar(16 * ((c % 256) \div 16) + ((c % 256) % 16)) = c
<1>1. (c % 256) \div 16 \in 0 .. 15 /\ (c % 256) % 16 \in 0 .. 15
  BY DEF char
<1>2. 16 * ((c % 256) \div 16) + ((c % 256) % 16) = c % 256
  BY DEF char
<1>3. (((c % 256) + 128) % 256) - 128 = c
  BY DEF char
<1> QED BY <1>1, <1>2, <1>3 DEF toChar

LEMMA DigitReads ==
  ASSUME NEW d \in 0 .. 15
  PROVE  digitValue(s_hexTable(d)) = d
<1>1. CASE d < 10
  BY <1>1 DEF digitValue, s_hexTable
<1>2. CASE ~(d < 10)
  <2>1. s_hexTable(d) = 55 + d /\ 55 + d \in 65 .. 70
    BY <1>2 DEF s_hexTable
  <2>2. 55 + d \notin 48 .. 57 /\ 55 + d \notin 97 .. 102
    BY <1>2
  <2> QED BY <2>1, <2>2 DEF digitValue
<1> QED BY <1>1, <1>2, Zenon

LEMMA DigitsRead ==
  ASSUME NEW c \in char
  PROVE  LET bits == c % 256
             read == toIntStrict(s_hexTable(bits \div 16), s_hexTable(bits % 16))
         IN  read.ok /\ toChar(read.value) = c
<1> DEFINE hi == (c % 256) \div 16
           lo == (c % 256) % 16
<1>1. hi \in 0 .. 15 /\ lo \in 0 .. 15 /\ toChar(16 * hi + lo) = c
  BY DigitsOfChar, Zenon
<1> HIDE DEF hi, lo
<1>2. digitValue(s_hexTable(hi)) = hi /\ digitValue(s_hexTable(lo)) = lo
  BY <1>1, DigitReads, Zenon
<1>3. hi >= 0 /\ lo >= 0
  BY <1>1
<1>4. toIntStrict(s_hexTable(hi), s_hexTable(lo)) = [ok |-> TRUE, value |-> 16 * hi + lo]
  BY <1>2, <1>3, Zenon DEF toIntStrict
<1>5. /\ toIntStrict(s_hexTable(hi), s_hexTable(lo)).ok
      /\ toChar(toIntStrict(s_hexTable(hi), s_hexTable(lo)).value) = c
  BY <1>1, <1>4
<1> QED BY <1>5, Zenon DEF hi, lo

LEMMA Halves ==
  ASSUME NEW n \in Nat
  PROVE  /\ (2 * n) \div 2 = n /\ (2 * n) % 2 = 0
         /\ \A i \in 1 .. n : /\ 2 * i - 1 \in 1 .. 2 * n /\ 2 * i \in 1 .. 2 * n
                              /\ (2 * i - 1 + 1) \div 2 = i /\ (2 * i + 1) \div 2 = i
                              /\ (2 * i - 1) % 2 = 1 /\ (2 * i) % 2 # 1
OBVIOUS

\* jscjs.cpp: strToBytecode() reads back what bytecodeToStr() writes, for bytecode of any
\* length and chars of either sign.
THEOREM RoundTrip ==
  ASSUME NEW bytecode \in Seq(char)
  PROVE  /\ strToBytecode(bytecodeToStr(bytecode)).ok
         /\ strToBytecode(bytecodeToStr(bytecode)).bytecode = bytecode
<1> DEFINE n == Len(bytecode)
           str == bytecodeToStr(bytecode)
           bits(i) == bytecode[i] % 256
           at(i) == toIntStrict(str[2 * i - 1], str[2 * i])
<1>1. n \in Nat /\ \A i \in 1 .. n : bytecode[i] \in char
  OBVIOUS
<1>2. Len(str) = 2 * n
  <2>1. 2 * n \in Nat /\ DOMAIN str = 1 .. 2 * n
    BY <1>1 DEF bytecodeToStr
  <2> QED BY <2>1
<1>3. ASSUME NEW i \in 1 .. n
      PROVE  at(i).ok /\ toChar(at(i).value) = bytecode[i]
  <2>1. /\ 2 * i - 1 \in 1 .. 2 * n /\ 2 * i \in 1 .. 2 * n
        /\ (2 * i - 1 + 1) \div 2 = i /\ (2 * i + 1) \div 2 = i
        /\ (2 * i - 1) % 2 = 1 /\ (2 * i) % 2 # 1
    BY <1>1, Halves, Zenon
  <2>2. str[2 * i - 1] = s_hexTable(bits(i) \div 16) /\ str[2 * i] = s_hexTable(bits(i) % 16)
    BY <2>1, Zenon DEF bytecodeToStr
  <2>3. bytecode[i] \in char
    BY <1>1, Zenon
  <2> QED BY <2>2, <2>3, DigitsRead
<1>4. Len(str) % 2 = 0 /\ Len(str) \div 2 = n
  BY <1>1, <1>2, Halves, Zenon
<1> HIDE DEF str
<1>5. /\ strToBytecode(str).ok
      /\ strToBytecode(str).bytecode = [i \in 1 .. n |-> toChar(at(i).value)]
  BY <1>3, <1>4, Zenon DEF strToBytecode
<1>6. [i \in 1 .. n |-> toChar(at(i).value)] = [i \in 1 .. n |-> bytecode[i]]
  BY <1>3, Zenon
<1>7. [i \in 1 .. n |-> bytecode[i]] = bytecode
  OBVIOUS
<1> QED BY <1>5, <1>6, <1>7, Zenon DEF str

-----------------------------------------------------------------------------
(* The inductive invariant of the exported functions *)

\* The buffers of the three static CStrings are three different live blocks.
BuffersAreApart ==
    /\ \A f \in Functions : statics[f] # 0 => memory[statics[f]] # Free
    /\ \A f, g \in Functions : statics[f] = statics[g] /\ statics[f] # 0 => f = g

\* What the page keeps is the buffer of jsc_compile, with the bytecode of a program.
KeptIsBytecode ==
    kept # Nowhere =>
        /\ kept.address # 0 /\ kept.address = statics["jsc_compile"]
        /\ memory[kept.address] = kept.text
        /\ \E s \in Sources \ Malformed : kept.text = Text("bytecode", s, bytecodeToStr(Bytecode[s]))

EmbedderInv == TypeOK /\ BuffersAreApart /\ KeptIsBytecode /\ ValueIsReadable

LEMMA TextsAre ==
  /\ Free \in Texts /\ Text("invalid bytecode", "none", << >>) \in Texts
  /\ \A s \in Sources \ Malformed :
       /\ Outcome(s) \in Texts /\ Outcome(s) # Free
       /\ Text("bytecode", s, bytecodeToStr(Bytecode[s])) \in Texts
       /\ Text("bytecode", s, bytecodeToStr(Bytecode[s])) # Free
  /\ \A s \in Malformed : Text("syntax error", s, << >>) \in Texts
BY Zenon DEF Texts, Outcome, Text, Free

\* A function that returns its static buffer leaves the other buffers alone.
LEMMA StaticReturned ==
  ASSUME EmbedderInv, NEW f \in Functions, NEW text \in Texts \ {Free}, ReturnStatic(f, text)
  PROVE  /\ memory' \in [Addresses -> Texts] /\ statics' \in [Functions -> Addresses \cup {0}]
         /\ returned' \in [address: Addresses \cup {0}, text: Texts]
         /\ BuffersAreApart' /\ ValueIsReadable'
         /\ returned' = [address |-> statics'[f], text |-> text]
         /\ statics'[f] # 0 /\ memory'[statics'[f]] = text
         /\ \A g \in Functions : g # f => /\ statics'[g] = statics[g]
                                          /\ statics[g] # 0 => memory'[statics[g]] = memory[statics[g]]
<1>t. /\ memory \in [Addresses -> Texts] /\ statics \in [Functions -> Addresses \cup {0}] /\ 0 \notin Addresses
      /\ BuffersAreApart
  BY JSCJSAssumption, Zenon DEF EmbedderInv, TypeOK
<1>1. PICK a \in Addresses :
        /\ memory[a] = Free
        /\ memory' = [b \in Addresses |-> IF b = a THEN text ELSE IF b = statics[f] THEN Free ELSE memory[b]]
        /\ statics' = [statics EXCEPT ![f] = a]
        /\ returned' = [address |-> a, text |-> text]
  BY Zenon DEF ReturnStatic
<1>2. statics'[f] = a /\ \A g \in Functions : g # f => statics'[g] = statics[g]
  BY <1>t, <1>1, Zenon
<1>3. /\ memory' \in [Addresses -> Texts] /\ statics' \in [Functions -> Addresses \cup {0}]
      /\ returned' \in [address: Addresses \cup {0}, text: Texts]
  BY <1>t, <1>1, TextsAre, Zenon
<1>4. memory'[a] = text /\ a # 0
  BY <1>t, <1>1, Zenon
<1>5. \A g \in Functions : g # f /\ statics[g] # 0 =>
        statics[g] \in Addresses /\ statics[g] # a /\ statics[g] # statics[f]
  BY <1>t, <1>1, Zenon DEF BuffersAreApart
<1>6. \A g \in Functions : g # f /\ statics[g] # 0 => memory'[statics[g]] = memory[statics[g]]
  BY <1>1, <1>5, Zenon
<1>7. BuffersAreApart'
  BY <1>t, <1>2, <1>4, <1>5, <1>6 DEF BuffersAreApart
<1>8. ValueIsReadable'
  BY <1>1, <1>4, Zenon DEF ValueIsReadable, ResultIsReadable
<1> QED BY <1>1, <1>2, <1>3, <1>4, <1>6, <1>7, <1>8, Zenon

\* A call that leaves kept alone and returns another function's static buffer.
LEMMA StaticStep ==
  ASSUME EmbedderInv, NEW f \in Functions \ {"jsc_compile"}, NEW text \in Texts \ {Free},
         ReturnStatic(f, text), UNCHANGED kept
  PROVE  EmbedderInv'
<1>1. TypeOK' /\ BuffersAreApart' /\ ValueIsReadable'
  BY StaticReturned, Zenon DEF EmbedderInv, TypeOK
<1>2. "jsc_compile" \in Functions /\ "jsc_compile" # f
  BY Zenon DEF Functions
<1>3. /\ statics'["jsc_compile"] = statics["jsc_compile"]
      /\ statics["jsc_compile"] # 0 => memory'[statics["jsc_compile"]] = memory[statics["jsc_compile"]]
  BY <1>2, StaticReturned, Zenon
<1>4. KeptIsBytecode'
  BY <1>3, Zenon DEF EmbedderInv, KeptIsBytecode
<1> QED BY <1>1, <1>4, Zenon DEF EmbedderInv

\* A call that returns no buffer of a static CString says that it failed.
LEMMA FailedStep ==
  ASSUME EmbedderInv, NEW text \in Texts, text.says \in {"syntax error", "invalid bytecode"},
         ReturnTemporary(text) \/ ReturnLiteral(text), UNCHANGED kept
  PROVE  EmbedderInv'
<1>1. PICK a \in Addresses \cup {0} : returned' = [address |-> a, text |-> text]
  BY Zenon DEF ReturnTemporary, ReturnLiteral
<1>2. UNCHANGED <<memory, statics>>
  BY Zenon DEF ReturnTemporary, ReturnLiteral
<1>3. TypeOK'
  BY <1>1, <1>2, Zenon DEF EmbedderInv, TypeOK
<1>4. ValueIsReadable'
  BY <1>1, Zenon DEF ValueIsReadable
<1> QED BY <1>2, <1>3, <1>4, Zenon DEF EmbedderInv, BuffersAreApart, KeptIsBytecode

LEMMA EvalStep ==
  ASSUME EmbedderInv, NEW s \in Sources, jsc_eval(s)
  PROVE  EmbedderInv'
<1>1. CASE s \in Malformed
  <2>1. ReturnTemporary(Text("syntax error", s, << >>)) /\ UNCHANGED kept
    BY <1>1, Zenon DEF jsc_eval
  <2>2. Text("syntax error", s, << >>) \in Texts /\ Text("syntax error", s, << >>).says = "syntax error"
    BY <1>1, TextsAre, Zenon DEF Text
  <2> QED BY <2>1, <2>2, FailedStep, Zenon
<1>2. CASE s \notin Malformed
  <2>1. ReturnStatic("jsc_eval", Outcome(s)) /\ UNCHANGED kept
    BY <1>2, Zenon DEF jsc_eval
  <2>2. Outcome(s) \in Texts \ {Free} /\ "jsc_eval" \in Functions \ {"jsc_compile"}
    BY <1>2, TextsAre, Zenon DEF Functions
  <2> QED BY <2>1, <2>2, StaticStep, Zenon
<1> QED BY <1>1, <1>2, Zenon

LEMMA CompileStep ==
  ASSUME EmbedderInv, NEW s \in Sources, jsc_compile(s)
  PROVE  EmbedderInv'
<1>1. CASE s \in Malformed
  <2>1. ReturnTemporary(Text("syntax error", s, << >>)) /\ UNCHANGED kept
    BY <1>1, Zenon DEF jsc_compile
  <2>2. Text("syntax error", s, << >>) \in Texts /\ Text("syntax error", s, << >>).says = "syntax error"
    BY <1>1, TextsAre, Zenon DEF Text
  <2> QED BY <2>1, <2>2, FailedStep, Zenon
<1>2. CASE s \notin Malformed
  <2> DEFINE text == Text("bytecode", s, bytecodeToStr(Bytecode[s]))
  <2>1. ReturnStatic("jsc_compile", text) /\ kept' = returned'
    BY <1>2, Zenon DEF jsc_compile
  <2>2. text \in Texts \ {Free} /\ "jsc_compile" \in Functions
    BY <1>2, TextsAre, Zenon DEF Functions
  <2>3. s \in Sources \ Malformed /\ text = Text("bytecode", s, bytecodeToStr(Bytecode[s]))
    BY <1>2, Zenon
  <2> HIDE DEF text
  <2>4. /\ memory' \in [Addresses -> Texts] /\ statics' \in [Functions -> Addresses \cup {0}]
        /\ returned' \in [address: Addresses \cup {0}, text: Texts]
        /\ BuffersAreApart' /\ ValueIsReadable'
        /\ returned' = [address |-> statics'["jsc_compile"], text |-> text]
        /\ statics'["jsc_compile"] # 0 /\ memory'[statics'["jsc_compile"]] = text
    BY <2>1, <2>2, StaticReturned, Zenon
  <2>5. TypeOK'
    BY <2>1, <2>4, Zenon DEF TypeOK
  <2>6. kept'.address = statics'["jsc_compile"] /\ kept'.text = text
    BY <2>1, <2>4, Zenon
  <2>7. KeptIsBytecode'
    BY <2>3, <2>4, <2>6, Zenon DEF KeptIsBytecode
  <2> QED BY <2>4, <2>5, <2>7, Zenon DEF EmbedderInv
<1> QED BY <1>1, <1>2, Zenon

\* The bytecode the page kept is that of a program, and runs as that program.
LEMMA KeptReads ==
  ASSUME EmbedderInv, jsc_eval_bytecode
  PROVE  \E s \in Sources \ Malformed :
            kept.text.source = s /\ ReturnStatic("jsc_eval_bytecode", Outcome(s)) /\ UNCHANGED kept
<1>1. kept # Nowhere /\ EvaluateCharacters(memory[kept.address].characters)
  BY Zenon DEF jsc_eval_bytecode
<1>2. PICK s \in Sources \ Malformed : kept.text = Text("bytecode", s, bytecodeToStr(Bytecode[s]))
  BY <1>1, Zenon DEF EmbedderInv, KeptIsBytecode
<1>3. memory[kept.address].characters = bytecodeToStr(Bytecode[s]) /\ kept.text.source = s
  BY <1>1, <1>2 DEF EmbedderInv, KeptIsBytecode, Text
<1>4. Bytecode[s] \in Seq(char)
  BY JSCJSAssumption, Zenon
<1> DEFINE decoded == strToBytecode(bytecodeToStr(Bytecode[s]))
<1>5. decoded.ok /\ decoded.bytecode = Bytecode[s]
  BY <1>4, RoundTrip, Zenon
<1>6. EvaluateCharacters(bytecodeToStr(Bytecode[s]))
  BY <1>1, <1>3, Zenon
<1>7. /\ \E r \in Sources : Bytecode[r] = decoded.bytecode /\ ReturnStatic("jsc_eval_bytecode", Outcome(r))
      /\ UNCHANGED kept
  BY <1>5, <1>6, Zenon DEF EvaluateCharacters
<1> HIDE DEF decoded
<1>8. ReturnStatic("jsc_eval_bytecode", Outcome(s))
  BY <1>5, <1>7, JSCJSAssumption, Zenon
<1> QED BY <1>3, <1>7, <1>8, Zenon

LEMMA BadStringStep ==
  ASSUME EmbedderInv, NEW string \in BadStrings, jsc_eval_bytecode_of(string)
  PROVE  EmbedderInv'
<1>1. ReturnLiteral(Text("invalid bytecode", "none", << >>)) /\ UNCHANGED kept
  BY BadStringsAssumption, Zenon DEF jsc_eval_bytecode_of, EvaluateCharacters
<1>2. /\ Text("invalid bytecode", "none", << >>) \in Texts
      /\ Text("invalid bytecode", "none", << >>).says = "invalid bytecode"
  BY TextsAre, Zenon DEF Text
<1> QED BY <1>1, <1>2, FailedStep, Zenon

LEMMA EmbedderStep == EmbedderInv /\ [Next]_vars => EmbedderInv'
<1> SUFFICES ASSUME EmbedderInv, [Next]_vars PROVE EmbedderInv'
  BY Zenon
<1>1. ASSUME NEW s \in Sources, jsc_eval(s) \/ jsc_compile(s) PROVE EmbedderInv'
  BY <1>1, EvalStep, CompileStep, Zenon
<1>2. CASE jsc_eval_bytecode
  <2>1. PICK s \in Sources \ Malformed : ReturnStatic("jsc_eval_bytecode", Outcome(s)) /\ UNCHANGED kept
    BY <1>2, KeptReads, Zenon
  <2>2. Outcome(s) \in Texts \ {Free} /\ "jsc_eval_bytecode" \in Functions \ {"jsc_compile"}
    BY TextsAre, Zenon DEF Functions
  <2> QED BY <2>1, <2>2, StaticStep, Zenon
<1>3. ASSUME NEW string \in BadStrings, jsc_eval_bytecode_of(string) PROVE EmbedderInv'
  BY <1>3, BadStringStep, Zenon
<1>4. CASE UNCHANGED vars
  BY <1>4, Zenon DEF vars, EmbedderInv, TypeOK, BuffersAreApart, KeptIsBytecode, ValueIsReadable,
     ResultIsReadable
<1> QED BY <1>1, <1>2, <1>3, <1>4, Zenon DEF Next

LEMMA EmbedderInit == Init => EmbedderInv
<1> SUFFICES ASSUME Init PROVE EmbedderInv
  BY Zenon
<1>1. TypeOK
  BY TextsAre, Zenon DEF Init, TypeOK, Nowhere
<1>2. BuffersAreApart /\ KeptIsBytecode
  BY Zenon DEF Init, BuffersAreApart, KeptIsBytecode
<1>3. ValueIsReadable
  BY Zenon DEF Init, ValueIsReadable, Nowhere, Free, Text
<1> QED BY <1>1, <1>2, <1>3, Zenon DEF EmbedderInv

\* jscjs.cpp: in every reachable state the static CStrings' buffers are apart and live,
\* what the page keeps is bytecode in jsc_compile's buffer, and a result can be read.
THEOREM EmbedderInvariant == Spec => []EmbedderInv
BY EmbedderInit, EmbedderStep, PTL DEF Spec

\* The pointer that a successful jsc_eval, jsc_compile or jsc_eval_bytecode returns
\* points to its result until the next call, and the bytecode the page kept stays as it
\* was until jsc_compile runs again; for any programs and any C heap.
THEOREM ReadableResults == Spec => []ResultsStayReadable
<1>1. EmbedderInv => ResultsStayReadable
  BY DEF EmbedderInv, ResultsStayReadable, KeptIsBytecode, KeptBytecodeIsIntact, Nowhere
<1> QED BY <1>1, EmbedderInvariant, PTL

\* jsc_eval_bytecode of what jsc_compile returned for a program has the outcome of
\* evaluating that program.
THEOREM BytecodeRuns == Spec => BytecodeRunsItsProgram
<1>1. EmbedderInv /\ [Next]_vars => [jsc_eval_bytecode => returned'.text = Outcome(kept.text.source)]_vars
  <2> SUFFICES ASSUME EmbedderInv, jsc_eval_bytecode PROVE returned'.text = Outcome(kept.text.source)
    BY Zenon
  <2>1. PICK s \in Sources \ Malformed :
          kept.text.source = s /\ ReturnStatic("jsc_eval_bytecode", Outcome(s))
    BY KeptReads, Zenon
  <2>2. returned'.text = Outcome(s)
    BY <2>1 DEF ReturnStatic
  <2> QED BY <2>1, <2>2, Zenon
<1> QED BY <1>1, EmbedderInvariant, PTL DEF Spec, BytecodeRunsItsProgram

-----------------------------------------------------------------------------
(* The object that is scanned while it changes *)

Unnukes == {"setStructure", "setStructureIDDirectly"}

\* The order of the stores of an operation: the barrier comes last, what un-nukes the
\* structure comes after all that it publishes, and comes in every operation that nukes.
OrderInv ==
    /\ bStores # <<>> => bStores[Len(bStores)].to = "barrier"
    /\ \A i, j \in DOMAIN bStores :
          i < j /\ bStores[i].to \in Unnukes => bStores[j].to \in {"putDirect", "barrier"}
    /\ \A i \in DOMAIN bStores : bStores[i].to = "nuke" =>
          \E j \in DOMAIN bStores : i < j /\ bStores[j].to \in Unnukes
    /\ bNuked => \E j \in DOMAIN bStores : bStores[j].to \in Unnukes
    /\ \A i, j \in DOMAIN bStores :
          bStores[i].to = "setLastOffset" => bStores[j].to # "setStructure"

\* Structures and butterflies are numbered in the order they are made in.
NumberInv ==
    /\ bStructureID <= bOperations + 1 /\ bButterfly <= bOperations + 1
    /\ bVisit.structureID <= bStructureID
    /\ bVisit.butterfly <= bOperations + 1 /\ bScanned.butterfly <= bOperations + 1
    /\ \A i \in DOMAIN bStores :
          /\ bStores[i].to = "setStructure" =>
                bStructureID < bStores[i].value /\ bStores[i].value <= bOperations + 1
          /\ bStores[i].to = "setButterfly" => bStores[i].value <= bOperations + 1
          /\ bStores[i].to = "setLastOffset" => bStores[i].value <= MaxSize

\* The object has structure s, storage b and last offset o once the stores are done.
Becomes(s, b, o) ==
    /\ \A i \in DOMAIN bStores : bStores[i].to = "setStructure" => bStores[i].value = s
    /\ (\A i \in DOMAIN bStores : bStores[i].to # "setStructure") => bStructureID = s
    /\ \A i \in DOMAIN bStores : bStores[i].to = "setButterfly" => bStores[i].value = b
    /\ (\A i \in DOMAIN bStores : bStores[i].to # "setButterfly") => bButterfly = b
    /\ \A i \in DOMAIN bStores : bStores[i].to = "setLastOffset" =>
          \/ bStores[i].value = o
          \/ \E j \in DOMAIN bStores : i < j /\ bStores[j].to = "setLastOffset"
    /\ (\A i \in DOMAIN bStores : bStores[i].to # "setLastOffset") => bLastOffset[s] = o

\* And then its storage is as large as its structure says.
FitInv ==
    \E s \in B!Structures, b \in {0} \cup B!Butterflies, o \in 0 .. MaxSize :
        /\ Becomes(s, b, o)
        /\ b = 0 <=> o = 0
        /\ b # 0 => bCapacity[b] = B!outOfLineCapacity(o)
        /\ bProperties[s] <= o

\* The object is queued unless it is black; and between two operations it is queued, or
\* all that the visit under way has read, or that the last one scanned, is still so.
ColorInv ==
    /\ ~bBlack => bQueued
    /\ bStores = <<>> /\ ~bQueued =>
          /\ bVisit.at \notin {"idle", "structure"} => bVisit.structureID = bStructureID
          /\ bVisit.at \in {"butterfly", "structureLate", "lastOffsetLate"} =>
                bVisit.lastOffset = bLastOffset[bStructureID]
          /\ bVisit.at \in {"structureLate", "lastOffsetLate"} => bVisit.butterfly = bButterfly
    /\ bVisit.at \in {"structureLate", "lastOffsetLate"} => bVisit.butterfly # 0
    /\ B!ScannedOrPending

\* A structure is nuked before its butterfly is replaced.
NukedAt(i) == bNuked \/ \E j \in DOMAIN bStores : j < i /\ bStores[j].to = "nuke"

\* Where no dictionary is flattened, last offsets only grow, and a butterfly is replaced
\* only under a nuked structure whose last offset, or which itself, then changes.
GrowthInv ==
    /\ \A i \in DOMAIN bStores : bStores[i].to = "setButterfly" =>
          /\ NukedAt(i)
          /\ \E j \in DOMAIN bStores : i < j /\
                \/ bStores[j].to = "setStructure"
                \/ bStores[j].to = "setLastOffset" /\ bStores[j].value > bLastOffset[bStructureID]
    /\ \A i \in DOMAIN bStores : bStores[i].to = "setLastOffset" =>
          /\ bStores[i].value >= bLastOffset[bStructureID]
          /\ NukedAt(i) \/ B!outOfLineCapacity(bStores[i].value) = B!outOfLineCapacity(bLastOffset[bStructureID])
          /\ \A j \in DOMAIN bStores : bStores[j].to = "setLastOffset" => j = i
    /\ ~bNuked /\ bButterfly # 0 =>
          bCapacity[bButterfly] = B!outOfLineCapacity(bLastOffset[bStructureID])

\* The visit: what it read of the last offset is no more than it is now; if both the
\* structure and the last offset are still what it read, so is the butterfly, or one of
\* the two is about to change before the structure is un-nuked.
SnapshotInv ==
    /\ bVisit.at \in {"butterfly", "structureLate", "lastOffsetLate"} =>
          bVisit.lastOffset <= bLastOffset[bVisit.structureID]
    /\ bVisit.at = "structureLate" /\ bStructureID = bVisit.structureID
       /\ bLastOffset[bStructureID] = bVisit.lastOffset /\ bButterfly # bVisit.butterfly =>
          /\ bNuked
          /\ \E j \in DOMAIN bStores :
                \/ bStores[j].to = "setStructure"
                \/ bStores[j].to = "setLastOffset" /\ bStores[j].value > bVisit.lastOffset
    /\ bVisit.at = "lastOffsetLate" /\ bLastOffset[bVisit.structureID] = bVisit.lastOffset =>
          bCapacity[bVisit.butterfly] = B!outOfLineCapacity(bVisit.lastOffset)

ObjectInv ==
    /\ B!TypeOK /\ OrderInv /\ NumberInv /\ FitInv /\ ColorInv
    /\ ~bFlattens => GrowthInv /\ SnapshotInv /\ B!NoTornScan

-----------------------------------------------------------------------------
(* Lists of stores *)

StoreRecord == [to : B!Stores, value : Nat]

(* Two lists in a row. *)
LEMMA Joined ==
    ASSUME NEW S, NEW p \in Seq(S), NEW q \in Seq(S)
    PROVE  /\ p \o q \in Seq(S) /\ Len(p \o q) = Len(p) + Len(q)
           /\ \A i \in 1 .. Len(p) : (p \o q)[i] = p[i]
           /\ \A i \in Len(p) + 1 .. Len(p) + Len(q) : (p \o q)[i] = q[i - Len(p)]
  OBVIOUS

(* A function on the numbers up to n is a list. *)
LEMMA Listed ==
    ASSUME NEW S, NEW n \in Nat, NEW q \in [1 .. n -> S]
    PROVE  q \in Seq(S) /\ Len(q) = n
  OBVIOUS

(* A list of some length. *)
LEMMA Occupied ==
    ASSUME NEW S, NEW q \in Seq(S), Len(q) # 0
    PROVE  q # <<>>
  OBVIOUS

(* A list without its first store. *)
LEMMA Shifted ==
    ASSUME NEW S, NEW q \in Seq(S), q # <<>>
    PROVE  /\ Len(q) \in Nat \ {0} /\ DOMAIN q = 1 .. Len(q) /\ Head(q) = q[1] /\ q[1] \in S
              /\ 1 \in DOMAIN q
           /\ Tail(q) \in Seq(S) /\ Len(Tail(q)) = Len(q) - 1 /\ DOMAIN Tail(q) = 1 .. Len(q) - 1
           /\ Tail(q) = <<>> <=> Len(q) = 1
           /\ \A i \in DOMAIN Tail(q) : i \in Int /\ i >= 1 /\ i + 1 \in DOMAIN q /\ Tail(q)[i] = q[i + 1]
           /\ \A i \in DOMAIN q : i # 1 => i - 1 \in DOMAIN Tail(q) /\ Tail(q)[i - 1] = q[i] /\ i \in Int /\ i > 1
<1>1. /\ Len(q) \in Nat \ {0} /\ DOMAIN q = 1 .. Len(q) /\ Head(q) = q[1] /\ q[1] \in S /\ 1 \in DOMAIN q
      /\ Tail(q) \in Seq(S) /\ Len(Tail(q)) = Len(q) - 1 /\ DOMAIN Tail(q) = 1 .. Len(q) - 1
  OBVIOUS
<1>e. Tail(q) = <<>> <=> Len(q) = 1
  <2> DEFINE t == Tail(q)
  <2>1. t \in Seq(S) /\ Len(t) = Len(q) - 1
    BY <1>1, Zenon
  <2> HIDE DEF t
  <2>2. t = <<>> <=> Len(t) = 0
    BY <2>1
  <2>3. QED
    BY <1>1, <2>1, <2>2 DEF t
<1>2. \A i \in 1 .. Len(q) - 1 : Tail(q)[i] = q[i + 1]
  OBVIOUS
<1>3. \A i \in DOMAIN Tail(q) : i \in Int /\ i >= 1 /\ i + 1 \in DOMAIN q /\ Tail(q)[i] = q[i + 1]
  BY <1>1, <1>2
<1>4. ASSUME NEW i \in DOMAIN q, i # 1
      PROVE  i - 1 \in DOMAIN Tail(q) /\ Tail(q)[i - 1] = q[i] /\ i \in Int /\ i > 1
  <2>1. i - 1 \in 1 .. Len(q) - 1 /\ i \in Int /\ i > 1 /\ (i - 1) + 1 = i
    BY <1>1, <1>4
  <2>2. QED
    BY <2>1, <1>1, <1>2, Zenon
<1>5. QED
  BY <1>1, <1>e, <1>3, <1>4, Zenon

(* A single store, and one followed by the barrier. *)
LEMMA Single ==
    ASSUME NEW to \in B!Stores, NEW v \in Nat
    PROVE  /\ B!Store(to, v) \in Seq(StoreRecord) /\ Len(B!Store(to, v)) = 1
           /\ B!Store(to, v)[1].to = to /\ B!Store(to, v)[1].value = v
  BY DEF B!Store, StoreRecord

LEMMA Barred ==
    ASSUME NEW to \in B!Stores, NEW v \in Nat
    PROVE  LET l == B!Store(to, v) \o B!Barrier
           IN  l \in Seq(StoreRecord) /\ Len(l) = 2 /\ l[1].to = to /\ l[1].value = v /\ l[2].to = "barrier"
<1>1. /\ B!Store(to, v) \in Seq(StoreRecord) /\ Len(B!Store(to, v)) = 1
      /\ B!Store(to, v)[1].to = to /\ B!Store(to, v)[1].value = v
  BY Single, Zenon
<1>2. B!Barrier \in Seq(StoreRecord) /\ Len(B!Barrier) = 1 /\ B!Barrier[1].to = "barrier"
  <2>1. B!Barrier = B!Store("barrier", 0) /\ "barrier" \in B!Stores /\ 0 \in Nat
    BY Zenon DEF B!Barrier, B!Stores
  <2>2. QED
    BY <2>1, Single, Zenon
<1> DEFINE l == B!Store(to, v) \o B!Barrier
<1>3. l \in Seq(StoreRecord) /\ Len(l) = 2 /\ l[1] = B!Store(to, v)[1] /\ l[2] = B!Barrier[1]
  BY <1>1, <1>2, Joined
<1>4. QED
  BY <1>1, <1>2, <1>3, Zenon

(* nukeStructureAndSetButterfly. *)
LEMMA NukedAndSet ==
    ASSUME NEW b \in Nat
    PROVE  LET l == B!nukeStructureAndSetButterfly(b)
           IN  /\ l \in Seq(StoreRecord) /\ Len(l) = 3
               /\ l[1].to = "nuke" /\ l[2].to = "setButterfly" /\ l[2].value = b /\ l[3].to = "barrier"
<1> DEFINE n == B!Store("nuke", 0)
           p == B!setButterfly(b)
           l == n \o p
<1>1. n \in Seq(StoreRecord) /\ Len(n) = 1 /\ n[1].to = "nuke"
  BY Single DEF B!Stores
<1>2. p \in Seq(StoreRecord) /\ Len(p) = 2 /\ p[1].to = "setButterfly" /\ p[1].value = b
      /\ p[2].to = "barrier"
  BY Barred, Zenon DEF B!Stores, B!setButterfly
<1> HIDE DEF n, p
<1>3. l \in Seq(StoreRecord) /\ Len(l) = 3 /\ l[1] = n[1] /\ l[2] = p[1] /\ l[3] = p[2]
  <2>1. /\ l \in Seq(StoreRecord) /\ Len(l) = Len(n) + Len(p)
        /\ \A i \in 1 .. Len(n) : l[i] = n[i]
        /\ \A i \in Len(n) + 1 .. Len(n) + Len(p) : l[i] = p[i - Len(n)]
    BY <1>1, <1>2, Joined, Zenon
  <2> HIDE DEF l
  <2>2. QED
    BY <2>1, <1>1, <1>2
<1>4. l = B!nukeStructureAndSetButterfly(b)
  BY Zenon DEF B!nukeStructureAndSetButterfly, n, p
<1>5. QED
  BY <1>1, <1>2, <1>3, <1>4, Zenon

(* putDirect and setStructure. *)
LEMMA PutAndSet ==
    ASSUME NEW s \in Nat
    PROVE  /\ B!putDirect \in Seq(StoreRecord) /\ Len(B!putDirect) = 2
           /\ B!putDirect[1].to = "putDirect" /\ B!putDirect[2].to = "barrier"
           /\ B!setStructure(s) \in Seq(StoreRecord) /\ Len(B!setStructure(s)) = 2
           /\ B!setStructure(s)[1].to = "setStructure" /\ B!setStructure(s)[1].value = s
           /\ B!setStructure(s)[2].to = "barrier"
<1>1. /\ B!putDirect = B!Store("putDirect", 0) \o B!Barrier /\ "putDirect" \in B!Stores
      /\ B!setStructure(s) = B!Store("setStructure", s) \o B!Barrier /\ "setStructure" \in B!Stores
  BY Zenon DEF B!Stores, B!putDirect, B!setStructure
<1>2. QED
  BY <1>1, Barred

\* The stores that add a property by a transition: with more storage.
AddGrowingStores(l, f) ==
    /\ l \in Seq(StoreRecord) /\ Len(l) = 7
    /\ l[1].to = "nuke" /\ l[2].to = "setButterfly" /\ l[2].value = f
    /\ l[3].to = "barrier" /\ l[4].to = "putDirect"
    /\ l[5].to = "barrier" /\ l[6].to = "setStructure" /\ l[6].value = f
    /\ l[7].to = "barrier"

LEMMA AddGrowing ==
    ASSUME NEW f \in Nat
    PROVE  AddGrowingStores(B!nukeStructureAndSetButterfly(f) \o B!putDirect \o B!setStructure(f), f)
<1> DEFINE n == B!nukeStructureAndSetButterfly(f)
           p == B!putDirect
           s == B!setStructure(f)
<1>1. n \in Seq(StoreRecord) /\ Len(n) = 3 /\ n[1].to = "nuke" /\ n[2].to = "setButterfly"
      /\ n[2].value = f /\ n[3].to = "barrier"
  BY NukedAndSet, Zenon
<1>2. p \in Seq(StoreRecord) /\ Len(p) = 2 /\ p[1].to = "putDirect" /\ p[2].to = "barrier"
  BY PutAndSet, 0 \in Nat, Zenon
<1>3. s \in Seq(StoreRecord) /\ Len(s) = 2 /\ s[1].to = "setStructure" /\ s[1].value = f
      /\ s[2].to = "barrier"
  BY PutAndSet, Zenon
<1> HIDE DEF n, p, s
<1> DEFINE h1 == n \o p
<1>4. /\ h1 \in Seq(StoreRecord) /\ Len(h1) = Len(n) + Len(p)
      /\ \A i \in 1 .. Len(n) : h1[i] = n[i]
      /\ \A i \in Len(n) + 1 .. Len(n) + Len(p) : h1[i] = p[i - Len(n)]
  BY <1>1, <1>2, Joined, Zenon
<1> HIDE DEF h1
<1>5. h1 \in Seq(StoreRecord) /\ Len(h1) = 5 /\ h1[1].to = "nuke" /\ h1[2].to = "setButterfly"
      /\ h1[2].value = f /\ h1[3].to = "barrier" /\ h1[4].to = "putDirect" /\ h1[5].to = "barrier"
  BY <1>1, <1>2, <1>4
<1> DEFINE m == h1 \o s
<1>6. /\ m \in Seq(StoreRecord) /\ Len(m) = Len(h1) + Len(s)
      /\ \A i \in 1 .. Len(h1) : m[i] = h1[i]
      /\ \A i \in Len(h1) + 1 .. Len(h1) + Len(s) : m[i] = s[i - Len(h1)]
  <2>1. h1 \in Seq(StoreRecord) /\ s \in Seq(StoreRecord)
    BY <1>5, <1>3, Zenon
  <2>2. QED
    BY <2>1, Joined, Zenon
<1> HIDE DEF m
<1>7. m \in Seq(StoreRecord) /\ Len(m) = 7 /\ m[1].to = "nuke" /\ m[2].to = "setButterfly"
      /\ m[2].value = f /\ m[3].to = "barrier" /\ m[4].to = "putDirect" /\ m[5].to = "barrier"
      /\ m[6].to = "setStructure" /\ m[6].value = f /\ m[7].to = "barrier"
  BY <1>5, <1>3, <1>6
<1>8. B!nukeStructureAndSetButterfly(f) \o B!putDirect \o B!setStructure(f) = m
  BY Zenon DEF m, h1, n, p, s
<1>9. QED
  BY <1>7, <1>8, Zenon DEF AddGrowingStores

\* And in the storage there is.
AddInPlaceStores(l, f) ==
    /\ l \in Seq(StoreRecord) /\ Len(l) = 4
    /\ l[1].to = "putDirect" /\ l[2].to = "barrier"
    /\ l[3].to = "setStructure" /\ l[3].value = f /\ l[4].to = "barrier"

LEMMA AddInPlace ==
    ASSUME NEW f \in Nat
    PROVE  AddInPlaceStores(<<>> \o B!putDirect \o B!setStructure(f), f)
<1> DEFINE e == <<>>
           p == B!putDirect
           s == B!setStructure(f)
<1>1. e \in Seq(StoreRecord) /\ Len(e) = 0
  OBVIOUS
<1>2. p \in Seq(StoreRecord) /\ Len(p) = 2 /\ p[1].to = "putDirect" /\ p[2].to = "barrier"
  BY PutAndSet, 0 \in Nat, Zenon
<1>3. s \in Seq(StoreRecord) /\ Len(s) = 2 /\ s[1].to = "setStructure" /\ s[1].value = f
      /\ s[2].to = "barrier"
  BY PutAndSet, Zenon
<1> HIDE DEF e, p, s
<1> DEFINE h1 == e \o p
<1>4. /\ h1 \in Seq(StoreRecord) /\ Len(h1) = Len(e) + Len(p)
      /\ \A i \in 1 .. Len(e) : h1[i] = e[i]
      /\ \A i \in Len(e) + 1 .. Len(e) + Len(p) : h1[i] = p[i - Len(e)]
  <2>1. e \in Seq(StoreRecord) /\ p \in Seq(StoreRecord)
    BY <1>1, <1>2, Zenon
  <2>2. QED
    BY <2>1, Joined, Zenon
<1> HIDE DEF h1
<1>5. h1 \in Seq(StoreRecord) /\ Len(h1) = 2 /\ h1[1].to = "putDirect" /\ h1[2].to = "barrier"
  BY <1>1, <1>2, <1>4
<1> DEFINE m == h1 \o s
<1>6. /\ m \in Seq(StoreRecord) /\ Len(m) = Len(h1) + Len(s)
      /\ \A i \in 1 .. Len(h1) : m[i] = h1[i]
      /\ \A i \in Len(h1) + 1 .. Len(h1) + Len(s) : m[i] = s[i - Len(h1)]
  BY <1>5, <1>3, Joined, Zenon
<1> HIDE DEF m
<1>7. m \in Seq(StoreRecord) /\ Len(m) = 4 /\ m[1].to = "putDirect" /\ m[2].to = "barrier"
      /\ m[3].to = "setStructure" /\ m[3].value = f /\ m[4].to = "barrier"
  BY <1>5, <1>3, <1>6
<1>8. <<>> \o B!putDirect \o B!setStructure(f) = m
  BY Zenon DEF m, h1, e, p, s
<1>9. QED
  BY <1>7, <1>8, Zenon DEF AddInPlaceStores

\* The stores by which a dictionary takes a property: with more storage.
PrepareGrowingStores(l, f, new) ==
    /\ l \in Seq(StoreRecord) /\ Len(l) = 7
    /\ l[1].to = "nuke" /\ l[2].to = "setButterfly" /\ l[2].value = f
    /\ l[3].to = "barrier" /\ l[4].to = "setLastOffset" /\ l[4].value = new
    /\ l[5].to = "setStructureIDDirectly" /\ l[6].to = "putDirect"
    /\ l[7].to = "barrier"

LEMMA PrepareGrowing ==
    ASSUME NEW f \in Nat, NEW new \in Nat
    PROVE  PrepareGrowingStores(B!nukeStructureAndSetButterfly(f) \o B!Store("setLastOffset", new) \o B!Store("setStructureIDDirectly", 0) \o B!putDirect, f, new)
<1> DEFINE n == B!nukeStructureAndSetButterfly(f)
           o == B!Store("setLastOffset", new)
           d == B!Store("setStructureIDDirectly", 0)
           p == B!putDirect
<1>1. n \in Seq(StoreRecord) /\ Len(n) = 3 /\ n[1].to = "nuke" /\ n[2].to = "setButterfly"
      /\ n[2].value = f /\ n[3].to = "barrier"
  BY NukedAndSet, Zenon
<1>2. o \in Seq(StoreRecord) /\ Len(o) = 1 /\ o[1].to = "setLastOffset" /\ o[1].value = new
  BY Single, Zenon DEF B!Stores
<1>3. d \in Seq(StoreRecord) /\ Len(d) = 1 /\ d[1].to = "setStructureIDDirectly"
  BY Single DEF B!Stores
<1>4. p \in Seq(StoreRecord) /\ Len(p) = 2 /\ p[1].to = "putDirect" /\ p[2].to = "barrier"
  BY PutAndSet, 0 \in Nat, Zenon
<1> HIDE DEF n, o, d, p
<1> DEFINE h1 == n \o o
<1>5. /\ h1 \in Seq(StoreRecord) /\ Len(h1) = Len(n) + Len(o)
      /\ \A i \in 1 .. Len(n) : h1[i] = n[i]
      /\ \A i \in Len(n) + 1 .. Len(n) + Len(o) : h1[i] = o[i - Len(n)]
  BY <1>1, <1>2, Joined, Zenon
<1> HIDE DEF h1
<1>6. h1 \in Seq(StoreRecord) /\ Len(h1) = 4 /\ h1[1].to = "nuke" /\ h1[2].to = "setButterfly"
      /\ h1[2].value = f /\ h1[3].to = "barrier" /\ h1[4].to = "setLastOffset" /\ h1[4].value = new
  BY <1>1, <1>2, <1>5
<1> DEFINE h2 == h1 \o d
<1>7. /\ h2 \in Seq(StoreRecord) /\ Len(h2) = Len(h1) + Len(d)
      /\ \A i \in 1 .. Len(h1) : h2[i] = h1[i]
      /\ \A i \in Len(h1) + 1 .. Len(h1) + Len(d) : h2[i] = d[i - Len(h1)]
  BY <1>6, <1>3, Joined, Zenon
<1> HIDE DEF h2
<1>8. h2 \in Seq(StoreRecord) /\ Len(h2) = 5 /\ h2[1].to = "nuke" /\ h2[2].to = "setButterfly"
      /\ h2[2].value = f /\ h2[3].to = "barrier" /\ h2[4].to = "setLastOffset"
      /\ h2[4].value = new /\ h2[5].to = "setStructureIDDirectly"
  BY <1>6, <1>3, <1>7
<1> DEFINE m == h2 \o p
<1>9. /\ m \in Seq(StoreRecord) /\ Len(m) = Len(h2) + Len(p)
      /\ \A i \in 1 .. Len(h2) : m[i] = h2[i]
      /\ \A i \in Len(h2) + 1 .. Len(h2) + Len(p) : m[i] = p[i - Len(h2)]
  <2>1. h2 \in Seq(StoreRecord) /\ p \in Seq(StoreRecord)
    BY <1>8, <1>4, Zenon
  <2>2. QED
    BY <2>1, Joined, Zenon
<1> HIDE DEF m
<1>10. m \in Seq(StoreRecord) /\ Len(m) = 7 /\ m[1].to = "nuke" /\ m[2].to = "setButterfly"
       /\ m[2].value = f /\ m[3].to = "barrier" /\ m[4].to = "setLastOffset" /\ m[4].value = new
       /\ m[5].to = "setStructureIDDirectly" /\ m[6].to = "putDirect" /\ m[7].to = "barrier"
  BY <1>8, <1>4, <1>9
<1>11. B!nukeStructureAndSetButterfly(f) \o B!Store("setLastOffset", new) \o B!Store("setStructureIDDirectly", 0) \o B!putDirect = m
  BY Zenon DEF m, h1, h2, n, o, d, p
<1>12. QED
  BY <1>10, <1>11, Zenon DEF PrepareGrowingStores

\* And in the storage there is.
PrepareInPlaceStores(l, new) ==
    /\ l \in Seq(StoreRecord) /\ Len(l) = 3
    /\ l[1].to = "setLastOffset" /\ l[1].value = new /\ l[2].to = "putDirect"
    /\ l[3].to = "barrier"

LEMMA PrepareInPlace ==
    ASSUME NEW new \in Nat
    PROVE  PrepareInPlaceStores(B!Store("setLastOffset", new) \o B!putDirect, new)
<1> DEFINE o == B!Store("setLastOffset", new)
           p == B!putDirect
<1>1. o \in Seq(StoreRecord) /\ Len(o) = 1 /\ o[1].to = "setLastOffset" /\ o[1].value = new
  BY Single, Zenon DEF B!Stores
<1>2. p \in Seq(StoreRecord) /\ Len(p) = 2 /\ p[1].to = "putDirect" /\ p[2].to = "barrier"
  BY PutAndSet, 0 \in Nat, Zenon
<1> HIDE DEF o, p
<1> DEFINE m == o \o p
<1>3. /\ m \in Seq(StoreRecord) /\ Len(m) = Len(o) + Len(p)
      /\ \A i \in 1 .. Len(o) : m[i] = o[i]
      /\ \A i \in Len(o) + 1 .. Len(o) + Len(p) : m[i] = p[i - Len(o)]
  BY <1>1, <1>2, Joined, Zenon
<1> HIDE DEF m
<1>4. m \in Seq(StoreRecord) /\ Len(m) = 3 /\ m[1].to = "setLastOffset" /\ m[1].value = new
      /\ m[2].to = "putDirect" /\ m[3].to = "barrier"
  BY <1>1, <1>2, <1>3
<1>5. B!Store("setLastOffset", new) \o B!putDirect = m
  BY Zenon DEF m, o, p
<1>6. QED
  BY <1>4, <1>5, Zenon DEF PrepareInPlaceStores

\* The stores of flattenDictionaryStructure, where c compacts and r replaces the butterfly.
FlattenStores(l, c, r) ==
    LET n == 1 + Len(c) + Len(r)
    IN  /\ l \in Seq(StoreRecord) /\ Len(l) = n + 2
        /\ l[1].to = "nuke" /\ l[n + 1].to = "setStructureIDDirectly" /\ l[n + 2].to = "barrier"
        /\ \A i \in 2 .. 1 + Len(c) : l[i] = c[i - 1]
        /\ \A i \in 2 + Len(c) .. n : l[i] = r[i - 1 - Len(c)]

LEMMA Flattening ==
    ASSUME NEW c \in Seq(StoreRecord), NEW r \in Seq(StoreRecord)
    PROVE  FlattenStores(B!Store("nuke", 0) \o c \o r \o B!Store("setStructureIDDirectly", 0) \o B!Barrier, c, r)
<1> DEFINE u == B!Store("nuke", 0)
           d == B!Store("setStructureIDDirectly", 0)
           e == B!Barrier
           n == 1 + Len(c) + Len(r)
<1>1. u \in Seq(StoreRecord) /\ Len(u) = 1 /\ u[1].to = "nuke"
  BY Single DEF B!Stores
<1>2. d \in Seq(StoreRecord) /\ Len(d) = 1 /\ d[1].to = "setStructureIDDirectly"
  BY Single DEF B!Stores
<1>3. e \in Seq(StoreRecord) /\ Len(e) = 1 /\ e[1].to = "barrier"
  <2>1. e = B!Store("barrier", 0) /\ "barrier" \in B!Stores /\ 0 \in Nat
    BY Zenon DEF B!Barrier, B!Stores
  <2>2. QED
    BY <2>1, Single, Zenon
<1>4. Len(c) \in Nat /\ Len(r) \in Nat
  OBVIOUS
<1> HIDE DEF u, d, e
<1> DEFINE h1 == u \o c
<1>5. /\ h1 \in Seq(StoreRecord) /\ Len(h1) = Len(u) + Len(c)
      /\ \A i \in 1 .. Len(u) : h1[i] = u[i]
      /\ \A i \in Len(u) + 1 .. Len(u) + Len(c) : h1[i] = c[i - Len(u)]
  BY <1>1, Joined, Zenon
<1> HIDE DEF h1
<1>6. h1 \in Seq(StoreRecord) /\ Len(h1) = 1 + Len(c) /\ h1[1].to = "nuke" /\ \A i \in 2 .. 1 + Len(c) : h1[i] = c[i - 1]
  BY <1>1, <1>4, <1>5
<1> DEFINE h2 == h1 \o r
<1>7. /\ h2 \in Seq(StoreRecord) /\ Len(h2) = Len(h1) + Len(r)
      /\ \A i \in 1 .. Len(h1) : h2[i] = h1[i]
      /\ \A i \in Len(h1) + 1 .. Len(h1) + Len(r) : h2[i] = r[i - Len(h1)]
  BY <1>6, Joined, Zenon
<1> HIDE DEF h2
<1>8. /\ h2 \in Seq(StoreRecord) /\ Len(h2) = n /\ h2[1].to = "nuke"
      /\ \A i \in 2 .. 1 + Len(c) : h2[i] = c[i - 1]
      /\ \A i \in 2 + Len(c) .. n : h2[i] = r[i - 1 - Len(c)]
  <2>1. h2 \in Seq(StoreRecord) /\ Len(h2) = n /\ h2[1].to = "nuke"
    BY <1>4, <1>6, <1>7
  <2>2. \A i \in 2 .. 1 + Len(c) : h2[i] = c[i - 1]
    BY <1>4, <1>6, <1>7
  <2>3. ASSUME NEW i \in 2 + Len(c) .. n
        PROVE  h2[i] = r[i - 1 - Len(c)]
    <3>1. i \in Len(h1) + 1 .. Len(h1) + Len(r) /\ i - Len(h1) = i - 1 - Len(c)
      BY <1>4, <1>6, <2>3
    <3>2. QED
      BY <3>1, <1>7, Zenon
  <2>4. QED
    BY <2>1, <2>2, <2>3, Zenon
<1>h. h2 \in Seq(StoreRecord)
  BY <1>8, Zenon
<1> DEFINE h3 == h2 \o d
<1>9. /\ h3 \in Seq(StoreRecord) /\ Len(h3) = Len(h2) + Len(d)
      /\ \A i \in 1 .. Len(h2) : h3[i] = h2[i]
      /\ \A i \in Len(h2) + 1 .. Len(h2) + Len(d) : h3[i] = d[i - Len(h2)]
  BY <1>h, <1>2, Joined, Zenon
<1> HIDE DEF h3
<1>10. /\ h3 \in Seq(StoreRecord) /\ Len(h3) = n + 1 /\ \A i \in 1 .. n : h3[i] = h2[i]
       /\ h3[n + 1].to = "setStructureIDDirectly"
  <2>1. h3 \in Seq(StoreRecord) /\ Len(h3) = n + 1 /\ \A i \in 1 .. n : h3[i] = h2[i]
    BY <1>4, <1>8, <1>2, <1>9, Zenon
  <2>2. n + 1 \in Len(h2) + 1 .. Len(h2) + Len(d) /\ n + 1 - Len(h2) = 1
    BY <1>4, <1>8, <1>2
  <2>3. QED
    BY <2>1, <2>2, <1>2, <1>9
<1> DEFINE l == h3 \o e
<1>11. /\ l \in Seq(StoreRecord) /\ Len(l) = Len(h3) + Len(e)
       /\ \A i \in 1 .. Len(h3) : l[i] = h3[i]
       /\ \A i \in Len(h3) + 1 .. Len(h3) + Len(e) : l[i] = e[i - Len(h3)]
  <2>1. h3 \in Seq(StoreRecord) /\ e \in Seq(StoreRecord)
    BY <1>10, <1>3, Zenon
  <2>2. QED
    BY <2>1, Joined, Zenon
<1> HIDE DEF l
<1>12. /\ l \in Seq(StoreRecord) /\ Len(l) = n + 2 /\ \A i \in 1 .. n + 1 : l[i] = h3[i]
       /\ l[n + 2].to = "barrier"
  <2>1. l \in Seq(StoreRecord) /\ Len(l) = n + 2 /\ \A i \in 1 .. n + 1 : l[i] = h3[i]
    BY <1>4, <1>10, <1>3, <1>11
  <2>2. n + 2 \in Len(h3) + 1 .. Len(h3) + Len(e) /\ n + 2 - Len(h3) = 1
    BY <1>4, <1>10, <1>3
  <2>3. QED
    BY <2>1, <2>2, <1>3, <1>11
<1>13. l[1].to = "nuke" /\ l[n + 1].to = "setStructureIDDirectly"
  <2>1. n \in Nat /\ 1 \in 1 .. n /\ 1 \in 1 .. n + 1 /\ n + 1 \in 1 .. n + 1
    BY <1>4
  <2> HIDE DEF n
  <2>2. QED
    BY <2>1, <1>8, <1>10, <1>12, Zenon
<1>14. /\ \A i \in 2 .. 1 + Len(c) : l[i] = c[i - 1]
       /\ \A i \in 2 + Len(c) .. n : l[i] = r[i - 1 - Len(c)]
  <2>1. \A i \in 2 .. n : l[i] = h2[i]
    BY <1>4, <1>10, <1>12
  <2>2. \A i \in 2 .. 1 + Len(c) : i \in 2 .. n
    BY <1>4
  <2>3. \A i \in 2 + Len(c) .. n : i \in 2 .. n
    BY <1>4
  <2> HIDE DEF n
  <2>4. QED
    BY <1>8, <2>1, <2>2, <2>3, Zenon
<1>15. l = B!Store("nuke", 0) \o c \o r \o B!Store("setStructureIDDirectly", 0) \o B!Barrier
  BY Zenon DEF l, h3, h2, h1, u, d, e
<1>16. QED
  BY <1>12, <1>13, <1>14, <1>15, Zenon DEF FlattenStores

\* The stores of a compaction: the last offset is the last of those it goes through.
CompactionStores(l, count) ==
    /\ l \in Seq(StoreRecord) /\ count + 1 \in 1 .. Len(l) /\ l[count + 1].to = "setLastOffset"
    /\ \A i \in 1 .. Len(l) :
          /\ l[i].to \in {"setLastOffset", "putDirect", "barrier"}
          /\ l[i].to = "setLastOffset" =>
                l[i].value <= count /\ (l[i].value = count \/ i < count + 1)

LEMMA Compacting ==
    ASSUME NEW count \in Nat, count = bProperties[bStructureID]
    PROVE  CompactionStores(B!Compaction, count)
<1> DEFINE a == [i \in 1 .. count + 1 |-> [to |-> "setLastOffset", value |-> i - 1]]
           p == IF count > 0 THEN B!putDirect ELSE <<>>
           l == a \o p
<1>1. /\ a \in Seq(StoreRecord) /\ Len(a) = count + 1
      /\ \A i \in 1 .. count + 1 : a[i].to = "setLastOffset" /\ a[i].value = i - 1
  <2>1. \A i \in 1 .. count + 1 : [to |-> "setLastOffset", value |-> i - 1] \in StoreRecord
    BY DEF StoreRecord, B!Stores
  <2>2. \A i \in 1 .. count + 1 : a[i].to = "setLastOffset" /\ a[i].value = i - 1
    BY Zenon
  <2>3. a \in [1 .. count + 1 -> StoreRecord]
    BY <2>1, Zenon
  <2> HIDE DEF a
  <2>4. a \in Seq(StoreRecord) /\ Len(a) = count + 1
    BY <2>3, Listed
  <2>5. QED
    BY <2>2, <2>4, Zenon
<1>2. p \in Seq(StoreRecord) /\ \A i \in 1 .. Len(p) : p[i].to \in {"putDirect", "barrier"}
  <2>1. CASE count > 0
    <3>1. /\ B!putDirect \in Seq(StoreRecord) /\ Len(B!putDirect) = 2
          /\ B!putDirect[1].to = "putDirect" /\ B!putDirect[2].to = "barrier"
      BY PutAndSet, 0 \in Nat, Zenon
    <3>2. p = B!putDirect
      BY <2>1, Zenon
    <3> HIDE DEF p
    <3>3. \A i \in 1 .. 2 : p[i].to \in {"putDirect", "barrier"}
      BY <3>1, <3>2
    <3>4. QED
      BY <3>1, <3>2, <3>3, Zenon
  <2>2. CASE ~(count > 0)
    BY <2>2
  <2>3. QED
    BY <2>1, <2>2, Zenon
<1>3. Len(p) \in Nat
  BY <1>2
<1>c. B!Compaction = l
  BY Zenon DEF B!Compaction
<1> HIDE DEF a, p
<1>4. /\ l \in Seq(StoreRecord) /\ Len(l) = Len(a) + Len(p)
      /\ \A i \in 1 .. Len(a) : l[i] = a[i]
      /\ \A i \in Len(a) + 1 .. Len(a) + Len(p) : l[i] = p[i - Len(a)]
  <2>1. a \in Seq(StoreRecord) /\ p \in Seq(StoreRecord)
    BY <1>1, <1>2, Zenon
  <2>2. QED
    BY <2>1, Joined, Zenon
<1> HIDE DEF l
<1>a. count + 1 \in Nat /\ \A i \in 1 .. count + 1 : l[i].to = "setLastOffset" /\ l[i].value = i - 1
  <2>1. \A i \in 1 .. count + 1 : l[i] = a[i]
    BY <1>1, <1>4, Zenon
  <2>2. QED
    BY <2>1, <1>1
<1>5. count + 1 \in 1 .. Len(l) /\ l[count + 1].to = "setLastOffset"
  <2>1. Len(l) = count + 1 + Len(p)
    BY <1>1, <1>4, Zenon
  <2>2. count + 1 \in 1 .. Len(l) /\ count + 1 \in 1 .. count + 1
    BY <2>1, <1>3
  <2>3. QED
    BY <2>2, <1>a, Zenon
<1>6. ASSUME NEW i \in 1 .. Len(l)
      PROVE  /\ l[i].to \in {"setLastOffset", "putDirect", "barrier"}
             /\ l[i].to = "setLastOffset" =>
                   l[i].value <= count /\ (l[i].value = count \/ i < count + 1)
  <2>1. CASE i <= count + 1
    <3>1. i \in 1 .. count + 1
      BY <2>1
    <3>2. l[i].to = "setLastOffset" /\ l[i].value = i - 1
      BY <3>1, <1>a, Zenon
    <3>3. i - 1 <= count /\ (i - 1 = count \/ i < count + 1)
      BY <3>1
    <3>4. QED
      BY <3>2, <3>3, Zenon
  <2>2. CASE ~(i <= count + 1)
    <3>1. i \in Len(a) + 1 .. Len(a) + Len(p) /\ i - Len(a) \in 1 .. Len(p)
      BY <2>2, <1>1, <1>3, <1>4
    <3>2. l[i].to \in {"putDirect", "barrier"}
      BY <3>1, <1>2, <1>4, Zenon
    <3>3. QED
      BY <3>2, Zenon
  <2>3. QED
    BY <2>1, <2>2, Zenon
<1>7. QED
  BY <1>4, <1>5, <1>6, <1>c, Zenon DEF CompactionStores


-----------------------------------------------------------------------------
(* An operation begins *)

(* Between two operations the object is what it has become. *)
LEMMA Quiet ==
    ASSUME ObjectInv, bStores = <<>>
    PROVE  /\ ~bNuked /\ (bButterfly = 0 <=> bLastOffset[bStructureID] = 0)
           /\ bButterfly # 0 => bCapacity[bButterfly] = B!outOfLineCapacity(bLastOffset[bStructureID])
           /\ bProperties[bStructureID] <= bLastOffset[bStructureID]
<1>1. DOMAIN bStores = {}
  OBVIOUS
<1>2. ~bNuked
  BY <1>1, Zenon DEF ObjectInv, OrderInv
<1>3. PICK s \in B!Structures, b \in {0} \cup B!Butterflies, o \in 0 .. MaxSize :
        /\ Becomes(s, b, o) /\ (b = 0 <=> o = 0)
        /\ b # 0 => bCapacity[b] = B!outOfLineCapacity(o)
        /\ bProperties[s] <= o
  BY Zenon DEF ObjectInv, FitInv
<1>4. bStructureID = s /\ bButterfly = b /\ bLastOffset[s] = o
  BY <1>1, <1>3, Zenon DEF Becomes
<1>5. QED
  BY <1>2, <1>3, <1>4, Zenon

(* What does not depend on the stores of the operation that begins. *)
LEMMA BeginKeeps ==
    ASSUME ObjectInv, bStores = <<>>, bOperations < MaxOperations, bOperations' = bOperations + 1,
           UNCHANGED <<bFlattens, B!object, B!colors, bVisit, bScanned>>,
           \A s \in B!Structures : s # bOperations + 2 => bLastOffset'[s] = bLastOffset[s],
           \A b \in B!Butterflies : b # bOperations + 2 => bCapacity'[b] = bCapacity[b],
           bStores' # <<>> \/ UNCHANGED bLastOffset
    PROVE  ColorInv' /\ (~bFlattens => SnapshotInv' /\ B!NoTornScan')
<1> USE ObjectAssumption DEF B!ButterflyAssumption
<1>1. /\ bOperations \in Nat /\ MaxOperations \in Nat /\ bOperations + 2 \in Nat
      /\ bStructureID \in B!Structures /\ bStructureID # bOperations + 2
      /\ bVisit.structureID \in B!Structures /\ bVisit.structureID # bOperations + 2
      /\ bVisit.butterfly \in {0} \cup B!Butterflies /\ bVisit.butterfly # bOperations + 2
      /\ bScanned.butterfly \in {0} \cup B!Butterflies /\ bScanned.butterfly # bOperations + 2
  <2>1. /\ bOperations \in Nat /\ MaxOperations \in Nat /\ bOperations + 2 \in Nat
        /\ bStructureID \in B!Structures /\ bVisit.structureID \in B!Structures
        /\ bVisit.butterfly \in {0} \cup B!Butterflies /\ bScanned.butterfly \in {0} \cup B!Butterflies
    BY DEF ObjectInv, B!TypeOK
  <2>2. \A n : n \in B!Structures \/ n \in {0} \cup B!Butterflies => n \in Nat
    BY DEF B!Structures, B!Butterflies
  <2>3. /\ bStructureID <= bOperations + 1 /\ bVisit.structureID <= bStructureID
        /\ bVisit.butterfly <= bOperations + 1 /\ bScanned.butterfly <= bOperations + 1
    BY Zenon DEF ObjectInv, NumberInv
  <2>4. QED
    BY <2>1, <2>2, <2>3
<1>2. /\ UNCHANGED <<bStructureID, bNuked, bButterfly, bValues, bBlack, bQueued, bRaced, bVisit, bScanned, bFlattens>>
      /\ bLastOffset'[bStructureID] = bLastOffset[bStructureID]
      /\ bLastOffset'[bVisit.structureID] = bLastOffset[bVisit.structureID]
  BY <1>1, Zenon DEF B!object, B!colors
<1>3. ColorInv'
  <2>1. CASE bStores' # <<>>
    BY <1>2, <2>1, Zenon DEF ObjectInv, ColorInv, B!ScannedOrPending
  <2>2. CASE UNCHANGED bLastOffset
    BY <1>2, <2>2, Zenon DEF ObjectInv, ColorInv, B!ScannedOrPending
  <2>3. QED
    BY <2>1, <2>2, Zenon
<1>4. ASSUME ~bFlattens
      PROVE  SnapshotInv' /\ B!NoTornScan'
  <2>1. ~bNuked
    BY Quiet, Zenon
  <2>2. bVisit.at \in {"structureLate", "lastOffsetLate"} => bCapacity'[bVisit.butterfly] = bCapacity[bVisit.butterfly]
    BY <1>1, Zenon DEF ObjectInv, ColorInv
  <2>3. SnapshotInv'
    <3>1. bVisit.at \in {"butterfly", "structureLate", "lastOffsetLate"} =>
             bVisit.lastOffset <= bLastOffset[bVisit.structureID]
      BY <1>4, Zenon DEF ObjectInv, SnapshotInv
    <3>2. bVisit.at = "structureLate" /\ bStructureID = bVisit.structureID
          /\ bLastOffset[bStructureID] = bVisit.lastOffset => bButterfly = bVisit.butterfly
      BY <1>4, <2>1, Zenon DEF ObjectInv, SnapshotInv
    <3>3. bVisit.at = "lastOffsetLate" /\ bLastOffset[bVisit.structureID] = bVisit.lastOffset =>
             bCapacity[bVisit.butterfly] = B!outOfLineCapacity(bVisit.lastOffset)
      BY <1>4, Zenon DEF ObjectInv, SnapshotInv
    <3>4. QED
      BY <1>2, <2>2, <3>1, <3>2, <3>3, Zenon DEF SnapshotInv
  <2>4. bScanned.butterfly # 0 => bCapacity'[bScanned.butterfly] = bCapacity[bScanned.butterfly]
    BY <1>1, Zenon
  <2>5. B!NoTornScan'
    BY <1>2, <1>4, <2>4, Zenon DEF ObjectInv, B!NoTornScan
  <2>6. QED
    BY <2>3, <2>5, Zenon
<1>5. QED
  BY <1>3, <1>4, Zenon

(* What an operation that begins finds, and makes. *)
LEMMA Begun ==
    ASSUME ObjectInv, NEW list, B!Begin(list)
    PROVE  /\ bStores = <<>> /\ bStores' = list
           /\ bOperations \in Nat /\ bOperations' = bOperations + 1
              /\ bOperations' \in 0 .. MaxOperations
           /\ UNCHANGED <<bFlattens, bStructureID, bNuked, bButterfly, bValues, bBlack, bQueued, bRaced, bVisit, bScanned>>
           /\ B!Fresh \in B!Structures /\ B!Fresh \in B!Butterflies
           /\ B!Fresh \in Nat \ {0} /\ B!Fresh = bOperations + 2
           /\ bStructureID \in B!Structures /\ bStructureID \in Nat /\ bStructureID < B!Fresh
           /\ bButterfly \in {0} \cup B!Butterflies /\ bButterfly \in Nat /\ bButterfly < B!Fresh
           /\ bLastOffset[bStructureID] \in 0 .. MaxSize /\ bProperties[bStructureID] \in 0 .. MaxSize
           /\ MaxSize \in Nat /\ ~bNuked
<1> USE ObjectAssumption DEF B!ButterflyAssumption
<1>1. /\ bStores = <<>> /\ bStores' = list /\ bOperations < MaxOperations
      /\ bOperations' = bOperations + 1
      /\ UNCHANGED <<bFlattens, bStructureID, bNuked, bButterfly, bValues, bBlack, bQueued, bRaced, bVisit, bScanned>>
  BY Zenon DEF B!Begin, B!object, B!colors
<1>2. /\ bOperations \in 0 .. MaxOperations /\ bStructureID \in B!Structures
      /\ bButterfly \in {0} \cup B!Butterflies
      /\ bLastOffset \in [B!Structures -> 0 .. MaxSize] /\ bProperties \in [B!Structures -> 0 .. MaxSize]
  BY Zenon DEF ObjectInv, B!TypeOK
<1>3. MaxOperations \in Nat /\ MaxSize \in Nat
  BY Zenon
<1>4. bStructureID <= bOperations + 1 /\ bButterfly <= bOperations + 1
  BY Zenon DEF ObjectInv, NumberInv
<1>5. /\ bOperations \in Nat /\ bOperations' \in 0 .. MaxOperations /\ B!Fresh = bOperations + 2
      /\ B!Fresh \in B!Structures /\ B!Fresh \in B!Butterflies /\ B!Fresh \in Nat \ {0}
  BY <1>1, <1>2, <1>3 DEF B!Structures, B!Butterflies, B!Fresh
<1>6. bStructureID \in Nat /\ bStructureID < B!Fresh /\ bButterfly \in Nat /\ bButterfly < B!Fresh
  BY <1>2, <1>3, <1>4, <1>5 DEF B!Structures, B!Butterflies
<1>7. ~bNuked
  BY <1>1, Quiet, Zenon
<1>8. QED
  BY <1>1, <1>2, <1>3, <1>5, <1>6, <1>7, Zenon

(* The invariant after an operation began, from what its stores are.       *)
LEMMA BegunInv ==
    ASSUME ObjectInv, NEW list \in Seq(StoreRecord), B!Begin(list),
           bLastOffset' \in [B!Structures -> 0 .. MaxSize],
           bProperties' \in [B!Structures -> 0 .. MaxSize],
           bKind' \in [B!Structures -> B!Kinds], bCapacity' \in [B!Butterflies -> Nat],
           \A s \in B!Structures : s # B!Fresh => bLastOffset'[s] = bLastOffset[s],
           \A b \in B!Butterflies : b # B!Fresh => bCapacity'[b] = bCapacity[b],
           list # <<>> \/ UNCHANGED bLastOffset,
           \A i \in DOMAIN list :
              /\ list[i].to = "setStructure" => list[i].value = B!Fresh
              /\ list[i].to = "setButterfly" => list[i].value \in {0, B!Fresh}
              /\ list[i].to = "setLastOffset" => list[i].value <= MaxSize,
           OrderInv', FitInv', ~bFlattens => GrowthInv'
    PROVE  ObjectInv'
<1>b. /\ bStores = <<>> /\ bStores' = list
      /\ bOperations \in Nat /\ bOperations' = bOperations + 1 /\ bOperations' \in 0 .. MaxOperations
      /\ UNCHANGED <<bFlattens, bStructureID, bNuked, bButterfly, bValues, bBlack, bQueued, bRaced, bVisit, bScanned>>
      /\ B!Fresh \in Nat \ {0} /\ B!Fresh = bOperations + 2
      /\ bStructureID \in Nat /\ bStructureID < B!Fresh
  BY Begun, Zenon
<1>1. B!TypeOK'
  BY <1>b DEF ObjectInv, B!TypeOK, StoreRecord, B!Structures, B!Butterflies
<1>2. NumberInv'
  <2>1. /\ bButterfly <= bOperations + 1 /\ bVisit.structureID <= bStructureID
        /\ bVisit.butterfly <= bOperations + 1 /\ bScanned.butterfly <= bOperations + 1
    BY Zenon DEF ObjectInv, NumberInv
  <2>t. bButterfly \in Int /\ bVisit.butterfly \in Int /\ bScanned.butterfly \in Int
    <3>1. /\ bButterfly \in {0} \cup B!Butterflies /\ bVisit.butterfly \in {0} \cup B!Butterflies
          /\ bScanned.butterfly \in {0} \cup B!Butterflies
      BY Zenon DEF ObjectInv, B!TypeOK
    <3>2. QED
      BY <3>1 DEF B!Butterflies
  <2>2. ASSUME NEW i \in DOMAIN list
        PROVE  /\ list[i].to = "setStructure" => bStructureID < list[i].value /\ list[i].value <= bOperations' + 1
               /\ list[i].to = "setButterfly" => list[i].value <= bOperations' + 1
    <3>1. /\ list[i].to = "setStructure" => list[i].value = B!Fresh
          /\ list[i].to = "setButterfly" => list[i].value = 0 \/ list[i].value = B!Fresh
      BY <2>2, Zenon
    <3>2. bStructureID < B!Fresh /\ B!Fresh <= bOperations' + 1 /\ 0 <= bOperations' + 1
      BY <1>b
    <3>3. QED
      BY <3>1, <3>2, Zenon
  <2>3. bStructureID <= bOperations' + 1
    BY <1>b
  <2>4. bButterfly <= bOperations' + 1 /\ bVisit.butterfly <= bOperations' + 1
        /\ bScanned.butterfly <= bOperations' + 1
    BY <1>b, <2>1, <2>t
  <2>5. QED
    BY <1>b, <2>1, <2>2, <2>3, <2>4, Zenon DEF NumberInv
<1>3. ColorInv' /\ (~bFlattens => SnapshotInv' /\ B!NoTornScan')
  <2>1. bOperations < MaxOperations /\ UNCHANGED <<B!object, B!colors>>
    BY <1>b, Zenon DEF B!Begin, B!object, B!colors
  <2>2. QED
    BY <1>b, <2>1, BeginKeeps, Zenon
<1>4. QED
  BY <1>b, <1>1, <1>2, <1>3, Zenon DEF ObjectInv

(* What holds of capacities. *)
LEMMA Capacities ==
    /\ B!outOfLineCapacity(0) = 0 /\ B!outOfLineCapacity(1) = 4
    /\ \A size \in 0 .. MaxSize : B!outOfLineCapacity(size) \in Nat
    /\ \A size \in 1 .. MaxSize : B!outOfLineCapacity(size) # 0
<1>1. B!outOfLineCapacity(0) = 0 /\ B!outOfLineCapacity(1) = 4
  BY DEF B!outOfLineCapacity
<1>2. \A size \in 1 .. MaxSize : B!outOfLineCapacity(size) \in Nat \ {0}
  BY ObjectAssumption, Zenon DEF B!ButterflyAssumption
<1>3. MaxSize \in Nat
  BY ObjectAssumption, Zenon DEF B!ButterflyAssumption
<1>4. \A size \in 0 .. MaxSize : size = 0 \/ size \in 1 .. MaxSize
  BY <1>3
<1>5. QED
  BY <1>1, <1>2, <1>4

(* A transition that changes no storage: to a dictionary, or without a     *)
(* property.                                                               *)
LEMMA TransitionInv ==
    ASSUME ObjectInv, NEW count \in 0 .. MaxSize, count <= bLastOffset[bStructureID],
           NEW dictionaryKind \in B!Kinds, B!Begin(B!setStructure(B!Fresh)),
           B!NewStructure(bLastOffset[bStructureID], count, dictionaryKind), UNCHANGED bCapacity
    PROVE  ObjectInv'
<1>f. PICK f, o, list : f = B!Fresh /\ o = bLastOffset[bStructureID] /\ list = B!setStructure(B!Fresh)
  BY Zenon
<1>b. /\ bStores = <<>> /\ bStores' = list
      /\ UNCHANGED <<bStructureID, bNuked, bButterfly>>
      /\ f \in B!Structures /\ f \in Nat /\ bStructureID \in B!Structures /\ bStructureID # f
      /\ bButterfly \in {0} \cup B!Butterflies /\ o \in 0 .. MaxSize /\ ~bNuked
  BY <1>f, Begun
<1>q. /\ bButterfly = 0 <=> o = 0
      /\ bButterfly # 0 => bCapacity[bButterfly] = B!outOfLineCapacity(o)
  BY <1>f, <1>b, Quiet, Zenon
<1>l. /\ list \in Seq(StoreRecord) /\ Len(list) = 2 /\ DOMAIN list = 1 .. 2
      /\ list[1].to = "setStructure" /\ list[1].value = f /\ list[2].to = "barrier"
  BY <1>f, <1>b, PutAndSet
<1>e. /\ bLastOffset' = [bLastOffset EXCEPT ![f] = o] /\ bProperties' = [bProperties EXCEPT ![f] = count]
      /\ bKind' = [bKind EXCEPT ![f] = dictionaryKind]
  BY <1>f, Zenon DEF B!NewStructure
<1>t. /\ bLastOffset \in [B!Structures -> 0 .. MaxSize] /\ bProperties \in [B!Structures -> 0 .. MaxSize]
      /\ bKind \in [B!Structures -> B!Kinds] /\ bCapacity \in [B!Butterflies -> Nat]
  BY Zenon DEF ObjectInv, B!TypeOK
<1>1. OrderInv'
  BY <1>b, <1>l DEF OrderInv, Unnukes
<1>2. FitInv'
  <2>1. Becomes(f, bButterfly, o)'
    BY <1>b, <1>l, <1>e, <1>t DEF Becomes
  <2>2. bProperties'[f] <= o
    BY <1>f, <1>b, <1>e, <1>t, Zenon
  <2>3. QED
    BY <1>b, <1>q, <2>1, <2>2, Zenon DEF FitInv
<1>3. GrowthInv'
  <2>1. bLastOffset'[bStructureID] = o
    BY <1>f, <1>b, <1>e, <1>t, Zenon
  <2>2. QED
    BY <1>b, <1>l, <1>q, <2>1 DEF GrowthInv
<1>4. list \in Seq(StoreRecord) /\ list # <<>>
  <2>1. list \in Seq(StoreRecord) /\ Len(list) = 2
    BY <1>l, Zenon
  <2>2. QED
    BY <2>1
<1>5. \A i \in DOMAIN list :
         /\ list[i].to = "setStructure" => list[i].value = B!Fresh
         /\ list[i].to = "setButterfly" => list[i].value \in {0, B!Fresh}
         /\ list[i].to = "setLastOffset" => list[i].value <= MaxSize
  BY <1>f, <1>l
<1>6. /\ bLastOffset' \in [B!Structures -> 0 .. MaxSize] /\ bProperties' \in [B!Structures -> 0 .. MaxSize]
      /\ bKind' \in [B!Structures -> B!Kinds] /\ bCapacity' \in [B!Butterflies -> Nat]
      /\ \A s \in B!Structures : s # B!Fresh => bLastOffset'[s] = bLastOffset[s]
      /\ \A b \in B!Butterflies : b # B!Fresh => bCapacity'[b] = bCapacity[b]
  BY <1>f, <1>b, <1>e, <1>t, Zenon
<1>7. B!Begin(list)
  BY <1>f, Zenon
<1>8. QED
  BY <1>1, <1>2, <1>3, <1>4, <1>5, <1>6, <1>7, BegunInv, Zenon

(* A property is added by a transition, with more storage. *)
LEMMA AddGrowingInv ==
    ASSUME ObjectInv, B!addPropertyTransition,
           B!outOfLineCapacity(bLastOffset[bStructureID]) # B!outOfLineCapacity(bLastOffset[bStructureID] + 1)
    PROVE  ObjectInv'
<1>f. PICK f, s, o, new, list :
        /\ f = B!Fresh /\ s = bStructureID /\ o = bLastOffset[s] /\ new = o + 1
        /\ list = B!nukeStructureAndSetButterfly(f) \o B!putDirect \o B!setStructure(f)
  BY Zenon
<1>a. B!Begin(list)
  BY <1>f, Zenon DEF B!addPropertyTransition
<1>g. f = B!Fresh /\ s = bStructureID /\ o = bLastOffset[bStructureID]
  BY <1>f, Zenon
<1>b. /\ bStores = <<>> /\ bStores' = list
      /\ UNCHANGED <<bStructureID, bNuked, bButterfly>>
      /\ f \in B!Structures /\ f \in B!Butterflies /\ f \in Nat \ {0}
      /\ s \in B!Structures /\ s # f
      /\ bButterfly \in {0} \cup B!Butterflies /\ bButterfly # f
      /\ o \in 0 .. MaxSize /\ bProperties[s] \in 0 .. MaxSize /\ MaxSize \in Nat /\ ~bNuked
  BY <1>a, <1>g, Begun
<1>q. /\ bButterfly = 0 <=> o = 0
      /\ bButterfly # 0 => bCapacity[bButterfly] = B!outOfLineCapacity(o)
      /\ bProperties[s] <= o
  BY <1>b, <1>g, Quiet, Zenon
<1>t. /\ bLastOffset \in [B!Structures -> 0 .. MaxSize] /\ bProperties \in [B!Structures -> 0 .. MaxSize]
      /\ bKind \in [B!Structures -> B!Kinds] /\ bCapacity \in [B!Butterflies -> Nat]
  BY Zenon DEF ObjectInv, B!TypeOK
<1>n. new \in 1 .. MaxSize /\ B!outOfLineCapacity(new) \in Nat
  <2>1. new \in 1 .. MaxSize
    BY <1>f, <1>b DEF B!addPropertyTransition
  <2>2. new \in 0 .. MaxSize
    BY <2>1, <1>b
  <2>3. QED
    BY <2>1, <2>2, Capacities, Zenon
<1>l. /\ list \in Seq(StoreRecord) /\ Len(list) = 7 /\ DOMAIN list = 1 .. 7
      /\ list[1].to = "nuke" /\ list[2].to = "setButterfly" /\ list[2].value = f
         /\ list[3].to = "barrier"
      /\ list[4].to = "putDirect" /\ list[5].to = "barrier" /\ list[6].to = "setStructure"
         /\ list[6].value = f
      /\ list[7].to = "barrier"
  <2>1. f \in Nat /\ new \in Nat
        /\ list = B!nukeStructureAndSetButterfly(f) \o B!putDirect \o B!setStructure(f)
    BY <1>f, <1>b, <1>n
  <2>2. AddGrowingStores(list, f)
    BY <2>1, AddGrowing, Zenon
  <2>3. DOMAIN list = 1 .. 7
    <3>1. list \in Seq(StoreRecord) /\ Len(list) = 7
      BY <2>2, Zenon DEF AddGrowingStores
    <3>2. QED
      BY <3>1
  <2>4. QED
    BY <2>2, <2>3, Zenon DEF AddGrowingStores
<1>m. /\ DOMAIN list = 1 .. 7
      /\ \A i \in DOMAIN list : list[i].to = "setStructure" <=> i = 6
      /\ 6 \in DOMAIN list /\ list[6].value = f
      /\ \A i \in DOMAIN list : list[i].to = "setButterfly" <=> i = 2
      /\ 2 \in DOMAIN list /\ list[2].value = f
      /\ \A i \in DOMAIN list : list[i].to # "setLastOffset"
  BY <1>l
<1>e. /\ bLastOffset' = [bLastOffset EXCEPT ![f] = new] /\ bProperties' = [bProperties EXCEPT ![f] = new]
      /\ bKind' \in [B!Structures -> B!Kinds]
      /\ bCapacity' = [bCapacity EXCEPT ![f] = B!outOfLineCapacity(new)]
  BY <1>f, <1>t, Zenon DEF B!addPropertyTransition, B!NewStructure, B!Kinds
<1>1. OrderInv'
  BY <1>b, <1>l DEF OrderInv, Unnukes
<1>2. FitInv'
  <2>1. Becomes(f, f, new)'
    BY <1>b, <1>g, <1>m, <1>e, <1>t, <1>n, Zenon DEF Becomes
  <2>2. f # 0 /\ new # 0 /\ new \in 0 .. MaxSize
    BY <1>b, <1>e, <1>t, <1>n, <1>q
  <2>3. bCapacity'[f] = B!outOfLineCapacity(new) /\ bProperties'[f] <= new
    BY <1>b, <1>e, <1>t, <1>n, <1>q
  <2>4. QED
    BY <1>b, <1>n, <2>1, <2>2, <2>3, Zenon DEF FitInv
<1>3. GrowthInv'
  <2>1. bLastOffset'[bStructureID] = o /\ (bButterfly # 0 => bCapacity'[bButterfly] = B!outOfLineCapacity(o))
    BY <1>f, <1>b, <1>e, <1>t, <1>q, Zenon
  <2>2. ASSUME NEW i \in DOMAIN bStores', bStores'[i].to = "setButterfly"
        PROVE  /\ NukedAt(i)'
               /\ \E j \in DOMAIN bStores' : i < j /\
                     \/ bStores'[j].to = "setStructure"
                     \/ bStores'[j].to = "setLastOffset" /\ bStores'[j].value > bLastOffset'[bStructureID']
    <3>1. i = 2 /\ 1 \in DOMAIN bStores' /\ 6 \in DOMAIN bStores'
      BY <1>b, <1>m, <2>2
    <3>2. bStores'[1].to = "nuke"
      BY <1>b, <1>l, Zenon
    <3>3. bStores'[6].to = "setStructure"
      BY <1>b, <1>l, <1>n, <2>1, Zenon
    <3>4. QED
      BY <3>1, <3>2, <3>3 DEF NukedAt
  <2>3. \A i \in DOMAIN bStores' : bStores'[i].to # "setLastOffset"
    BY <1>b, <1>m, Zenon
  <2>4. QED
    BY <1>b, <2>1, <2>2, <2>3, Zenon DEF GrowthInv
<1>4. list \in Seq(StoreRecord) /\ list # <<>>
  <2>1. list \in Seq(StoreRecord) /\ Len(list) = 7
    BY <1>l, Zenon
  <2>2. Len(list) # 0
    BY <2>1
  <2>3. QED
    BY <2>1, <2>2, Occupied, Zenon
<1>5. \A i \in DOMAIN list :
         /\ list[i].to = "setStructure" => list[i].value = B!Fresh
         /\ list[i].to = "setButterfly" => list[i].value \in {0, B!Fresh}
         /\ list[i].to = "setLastOffset" => list[i].value <= MaxSize
  BY <1>g, <1>m, Zenon
<1>6. /\ bLastOffset' \in [B!Structures -> 0 .. MaxSize] /\ bProperties' \in [B!Structures -> 0 .. MaxSize]
      /\ bKind' \in [B!Structures -> B!Kinds] /\ bCapacity' \in [B!Butterflies -> Nat]
      /\ \A t \in B!Structures : t # B!Fresh => bLastOffset'[t] = bLastOffset[t]
      /\ \A b \in B!Butterflies : b # B!Fresh => bCapacity'[b] = bCapacity[b]
  BY <1>g, <1>b, <1>e, <1>t, <1>n, <1>q
<1>7. QED
  BY <1>a, <1>1, <1>2, <1>3, <1>4, <1>5, <1>6, BegunInv, Zenon

(* And in the storage there is. *)
LEMMA AddInPlaceInv ==
    ASSUME ObjectInv, B!addPropertyTransition,
           B!outOfLineCapacity(bLastOffset[bStructureID]) = B!outOfLineCapacity(bLastOffset[bStructureID] + 1)
    PROVE  ObjectInv'
<1>f. PICK f, s, o, new, list :
        /\ f = B!Fresh /\ s = bStructureID /\ o = bLastOffset[s] /\ new = o + 1
        /\ list = <<>> \o B!putDirect \o B!setStructure(f)
  BY Zenon
<1>a. B!Begin(list)
  BY <1>f, Zenon DEF B!addPropertyTransition
<1>g. f = B!Fresh /\ s = bStructureID /\ o = bLastOffset[bStructureID]
  BY <1>f, Zenon
<1>b. /\ bStores = <<>> /\ bStores' = list
      /\ UNCHANGED <<bStructureID, bNuked, bButterfly>>
      /\ f \in B!Structures /\ f \in B!Butterflies /\ f \in Nat \ {0}
      /\ s \in B!Structures /\ s # f
      /\ bButterfly \in {0} \cup B!Butterflies /\ bButterfly # f
      /\ o \in 0 .. MaxSize /\ bProperties[s] \in 0 .. MaxSize /\ MaxSize \in Nat /\ ~bNuked
  BY <1>a, <1>g, Begun
<1>q. /\ bButterfly = 0 <=> o = 0
      /\ bButterfly # 0 => bCapacity[bButterfly] = B!outOfLineCapacity(o)
      /\ bProperties[s] <= o
  BY <1>b, <1>g, Quiet, Zenon
<1>t. /\ bLastOffset \in [B!Structures -> 0 .. MaxSize] /\ bProperties \in [B!Structures -> 0 .. MaxSize]
      /\ bKind \in [B!Structures -> B!Kinds] /\ bCapacity \in [B!Butterflies -> Nat]
  BY Zenon DEF ObjectInv, B!TypeOK
<1>n. /\ new \in 1 .. MaxSize /\ new \in 0 .. MaxSize /\ new # 0 /\ bButterfly # 0
      /\ B!outOfLineCapacity(new) = B!outOfLineCapacity(o)
  <2>1. new \in 1 .. MaxSize /\ new \in 0 .. MaxSize /\ new # 0
    BY <1>f, <1>b DEF B!addPropertyTransition
  <2>2. o # 0
    BY <1>f, Capacities
  <2>3. QED
    BY <2>1, <2>2, <1>f, <1>q, Zenon
<1>l. /\ list \in Seq(StoreRecord) /\ Len(list) = 4 /\ DOMAIN list = 1 .. 4
      /\ list[1].to = "putDirect" /\ list[2].to = "barrier" /\ list[3].to = "setStructure"
         /\ list[3].value = f
      /\ list[4].to = "barrier"
  <2>1. f \in Nat /\ new \in Nat /\ list = <<>> \o B!putDirect \o B!setStructure(f)
    BY <1>f, <1>b, <1>n
  <2>2. AddInPlaceStores(list, f)
    BY <2>1, AddInPlace, Zenon
  <2>3. DOMAIN list = 1 .. 4
    <3>1. list \in Seq(StoreRecord) /\ Len(list) = 4
      BY <2>2, Zenon DEF AddInPlaceStores
    <3>2. QED
      BY <3>1
  <2>4. QED
    BY <2>2, <2>3, Zenon DEF AddInPlaceStores
<1>m. /\ DOMAIN list = 1 .. 4
      /\ \A i \in DOMAIN list : list[i].to = "setStructure" <=> i = 3
      /\ 3 \in DOMAIN list /\ list[3].value = f
      /\ \A i \in DOMAIN list : list[i].to # "setButterfly"
      /\ \A i \in DOMAIN list : list[i].to # "setLastOffset"
  BY <1>l
<1>e. /\ bLastOffset' = [bLastOffset EXCEPT ![f] = new] /\ bProperties' = [bProperties EXCEPT ![f] = new]
      /\ bKind' \in [B!Structures -> B!Kinds]
      /\ bCapacity' = bCapacity
  BY <1>f, <1>t, Zenon DEF B!addPropertyTransition, B!NewStructure, B!Kinds
<1>1. OrderInv'
  BY <1>b, <1>l DEF OrderInv, Unnukes
<1>2. FitInv'
  <2>1. Becomes(f, bButterfly, new)'
    BY <1>b, <1>g, <1>m, <1>e, <1>t, <1>n, Zenon DEF Becomes
  <2>2. new # 0 /\ new \in 0 .. MaxSize
    BY <1>b, <1>e, <1>t, <1>n, <1>q, Zenon
  <2>3. bCapacity'[bButterfly] = B!outOfLineCapacity(new) /\ bProperties'[f] <= new
    BY <1>b, <1>e, <1>t, <1>n, <1>q
  <2>4. QED
    BY <1>b, <1>n, <2>1, <2>2, <2>3, Zenon DEF FitInv
<1>3. GrowthInv'
  <2>1. bLastOffset'[bStructureID] = o /\ (bButterfly # 0 => bCapacity'[bButterfly] = B!outOfLineCapacity(o))
    BY <1>f, <1>b, <1>e, <1>t, <1>q, Zenon
  <2>2. \A i \in DOMAIN bStores' : bStores'[i].to # "setButterfly"
    BY <1>b, <1>m, Zenon
  <2>3. \A i \in DOMAIN bStores' : bStores'[i].to # "setLastOffset"
    BY <1>b, <1>m, Zenon
  <2>4. QED
    BY <1>b, <2>1, <2>2, <2>3, Zenon DEF GrowthInv
<1>4. list \in Seq(StoreRecord) /\ list # <<>>
  <2>1. list \in Seq(StoreRecord) /\ Len(list) = 4
    BY <1>l, Zenon
  <2>2. Len(list) # 0
    BY <2>1
  <2>3. QED
    BY <2>1, <2>2, Occupied, Zenon
<1>5. \A i \in DOMAIN list :
         /\ list[i].to = "setStructure" => list[i].value = B!Fresh
         /\ list[i].to = "setButterfly" => list[i].value \in {0, B!Fresh}
         /\ list[i].to = "setLastOffset" => list[i].value <= MaxSize
  BY <1>g, <1>m, Zenon
<1>6. /\ bLastOffset' \in [B!Structures -> 0 .. MaxSize] /\ bProperties' \in [B!Structures -> 0 .. MaxSize]
      /\ bKind' \in [B!Structures -> B!Kinds] /\ bCapacity' \in [B!Butterflies -> Nat]
      /\ \A t \in B!Structures : t # B!Fresh => bLastOffset'[t] = bLastOffset[t]
      /\ \A b \in B!Butterflies : b # B!Fresh => bCapacity'[b] = bCapacity[b]
  BY <1>g, <1>b, <1>e, <1>t, <1>n, <1>q, Zenon
<1>7. QED
  BY <1>a, <1>1, <1>2, <1>3, <1>4, <1>5, <1>6, BegunInv, Zenon


(* A dictionary takes a property, with more storage. *)
LEMMA PrepareGrowingInv ==
    ASSUME ObjectInv, B!prepareToPutDirectWithoutTransition, NEW n,
           n = (IF bProperties[bStructureID] < bLastOffset[bStructureID]
                THEN bLastOffset[bStructureID] ELSE bLastOffset[bStructureID] + 1),
           B!outOfLineCapacity(bLastOffset[bStructureID]) # B!outOfLineCapacity(n)
    PROVE  ObjectInv'
<1>f. PICK f, s, o, new, list :
        /\ f = B!Fresh /\ s = bStructureID /\ o = bLastOffset[s] /\ new = n
        /\ list = B!nukeStructureAndSetButterfly(f) \o B!Store("setLastOffset", new)
                  \o B!Store("setStructureIDDirectly", 0) \o B!putDirect
  BY Zenon
<1>a. B!Begin(list)
  BY <1>f, Zenon DEF B!prepareToPutDirectWithoutTransition
<1>g. f = B!Fresh /\ s = bStructureID /\ o = bLastOffset[bStructureID]
  BY <1>f, Zenon
<1>b. /\ bStores = <<>> /\ bStores' = list
      /\ UNCHANGED <<bStructureID, bNuked, bButterfly>>
      /\ f \in B!Structures /\ f \in B!Butterflies /\ f \in Nat \ {0}
      /\ s \in B!Structures /\ s # f
      /\ bButterfly \in {0} \cup B!Butterflies /\ bButterfly # f
      /\ o \in 0 .. MaxSize /\ bProperties[s] \in 0 .. MaxSize /\ MaxSize \in Nat /\ ~bNuked
  BY <1>a, <1>g, Begun
<1>q. /\ bButterfly = 0 <=> o = 0
      /\ bButterfly # 0 => bCapacity[bButterfly] = B!outOfLineCapacity(o)
      /\ bProperties[s] <= o
  BY <1>b, <1>g, Quiet, Zenon
<1>t. /\ bLastOffset \in [B!Structures -> 0 .. MaxSize] /\ bProperties \in [B!Structures -> 0 .. MaxSize]
      /\ bKind \in [B!Structures -> B!Kinds] /\ bCapacity \in [B!Butterflies -> Nat]
  BY Zenon DEF ObjectInv, B!TypeOK
<1>n. /\ new \in 1 .. MaxSize /\ new \in 0 .. MaxSize /\ new > o /\ new # 0
      /\ bProperties[s] + 1 \in 0 .. MaxSize /\ bProperties[s] + 1 <= new
         /\ B!outOfLineCapacity(new) \in Nat
  <2>1. new = o + 1 /\ ~(bProperties[s] < o)
    BY <1>f, Zenon
  <2>2. new <= MaxSize
    BY <1>f, Zenon DEF B!prepareToPutDirectWithoutTransition
  <2>3. /\ new \in 1 .. MaxSize /\ new \in 0 .. MaxSize /\ new > o /\ new # 0
        /\ bProperties[s] + 1 \in 0 .. MaxSize /\ bProperties[s] + 1 <= new
    BY <2>1, <2>2, <1>b, <1>q
  <2>4. QED
    BY <2>3, Capacities, Zenon
<1>l. /\ list \in Seq(StoreRecord) /\ Len(list) = 7 /\ DOMAIN list = 1 .. 7
      /\ list[1].to = "nuke" /\ list[2].to = "setButterfly" /\ list[2].value = f
         /\ list[3].to = "barrier"
      /\ list[4].to = "setLastOffset" /\ list[4].value = new
         /\ list[5].to = "setStructureIDDirectly" /\ list[6].to = "putDirect"
      /\ list[7].to = "barrier"
  <2>1. f \in Nat /\ new \in Nat
        /\ list = B!nukeStructureAndSetButterfly(f) \o B!Store("setLastOffset", new)
                  \o B!Store("setStructureIDDirectly", 0) \o B!putDirect
    BY <1>f, <1>b, <1>n
  <2>2. PrepareGrowingStores(list, f, new)
    BY <2>1, PrepareGrowing, Zenon
  <2>3. DOMAIN list = 1 .. 7
    <3>1. list \in Seq(StoreRecord) /\ Len(list) = 7
      BY <2>2, Zenon DEF PrepareGrowingStores
    <3>2. QED
      BY <3>1
  <2>4. QED
    BY <2>2, <2>3, Zenon DEF PrepareGrowingStores
<1>m. /\ DOMAIN list = 1 .. 7
      /\ \A i \in DOMAIN list : list[i].to # "setStructure"
      /\ \A i \in DOMAIN list : list[i].to = "setButterfly" <=> i = 2
      /\ 2 \in DOMAIN list /\ list[2].value = f
      /\ \A i \in DOMAIN list : list[i].to = "setLastOffset" <=> i = 4
      /\ 4 \in DOMAIN list /\ list[4].value = new
  BY <1>l
<1>e. /\ UNCHANGED <<bLastOffset, bKind>> /\ bProperties' = [bProperties EXCEPT ![s] = bProperties[s] + 1]
      /\ bCapacity' = [bCapacity EXCEPT ![f] = B!outOfLineCapacity(new)]
  BY <1>f, Zenon DEF B!prepareToPutDirectWithoutTransition
<1>1. OrderInv'
  BY <1>b, <1>l DEF OrderInv, Unnukes
<1>2. FitInv'
  <2>1. Becomes(s, f, new)'
    BY <1>b, <1>g, <1>m, <1>e, <1>t, <1>n, Zenon DEF Becomes
  <2>2. f # 0 /\ new # 0 /\ new \in 0 .. MaxSize
    BY <1>b, <1>e, <1>t, <1>n, <1>q, Zenon
  <2>3. bCapacity'[f] = B!outOfLineCapacity(new) /\ bProperties'[s] <= new
    BY <1>b, <1>e, <1>t, <1>n, <1>q, Zenon
  <2>4. QED
    BY <1>b, <1>n, <2>1, <2>2, <2>3, Zenon DEF FitInv
<1>3. GrowthInv'
  <2>1. bLastOffset'[bStructureID] = o /\ (bButterfly # 0 => bCapacity'[bButterfly] = B!outOfLineCapacity(o))
    BY <1>f, <1>b, <1>e, <1>t, <1>q, Zenon
  <2>2. ASSUME NEW i \in DOMAIN bStores', bStores'[i].to = "setButterfly"
        PROVE  /\ NukedAt(i)'
               /\ \E j \in DOMAIN bStores' : i < j /\
                     \/ bStores'[j].to = "setStructure"
                     \/ bStores'[j].to = "setLastOffset" /\ bStores'[j].value > bLastOffset'[bStructureID']
    <3>1. i = 2 /\ 1 \in DOMAIN bStores' /\ 4 \in DOMAIN bStores'
      BY <1>b, <1>m, <2>2
    <3>2. bStores'[1].to = "nuke"
      BY <1>b, <1>l, Zenon
    <3>3. bStores'[4].to = "setLastOffset" /\ bStores'[4].value > bLastOffset'[bStructureID']
      BY <1>b, <1>l, <1>n, <2>1, Zenon
    <3>4. QED
      BY <3>1, <3>2, <3>3 DEF NukedAt
  <2>3. ASSUME NEW i \in DOMAIN bStores', bStores'[i].to = "setLastOffset"
        PROVE  /\ bStores'[i].value >= bLastOffset'[bStructureID']
               /\ \/ NukedAt(i)'
                  \/ B!outOfLineCapacity(bStores'[i].value) = B!outOfLineCapacity(bLastOffset'[bStructureID'])
               /\ \A j \in DOMAIN bStores' : bStores'[j].to = "setLastOffset" => j = i
    <3>1. i = 4 /\ \A j \in DOMAIN bStores' : bStores'[j].to = "setLastOffset" => j = i
      BY <1>b, <1>m, <2>3, Zenon
    <3>2. bStores'[i].value = new /\ new >= bLastOffset'[bStructureID']
      BY <1>b, <1>m, <1>n, <2>1, <3>1
    <3>3. NukedAt(i)'
      BY <1>b, <1>l, <1>n, <2>1, <3>1, <3>2 DEF NukedAt
    <3>4. QED
      BY <3>1, <3>2, <3>3, Zenon
  <2>4. QED
    BY <1>b, <2>1, <2>2, <2>3, Zenon DEF GrowthInv
<1>4. list \in Seq(StoreRecord) /\ list # <<>>
  <2>1. list \in Seq(StoreRecord) /\ Len(list) = 7
    BY <1>l, Zenon
  <2>2. Len(list) # 0
    BY <2>1
  <2>3. QED
    BY <2>1, <2>2, Occupied, Zenon
<1>5. \A i \in DOMAIN list :
         /\ list[i].to = "setStructure" => list[i].value = B!Fresh
         /\ list[i].to = "setButterfly" => list[i].value \in {0, B!Fresh}
         /\ list[i].to = "setLastOffset" => list[i].value <= MaxSize
  BY <1>g, <1>m, <1>n
<1>6. /\ bLastOffset' \in [B!Structures -> 0 .. MaxSize] /\ bProperties' \in [B!Structures -> 0 .. MaxSize]
      /\ bKind' \in [B!Structures -> B!Kinds] /\ bCapacity' \in [B!Butterflies -> Nat]
      /\ \A t \in B!Structures : t # B!Fresh => bLastOffset'[t] = bLastOffset[t]
      /\ \A b \in B!Butterflies : b # B!Fresh => bCapacity'[b] = bCapacity[b]
  BY <1>g, <1>b, <1>e, <1>t, <1>n, <1>q, Zenon
<1>7. QED
  BY <1>a, <1>1, <1>2, <1>3, <1>4, <1>5, <1>6, BegunInv, Zenon

(* And in the storage there is. *)
LEMMA PrepareInPlaceInv ==
    ASSUME ObjectInv, B!prepareToPutDirectWithoutTransition, NEW n,
           n = (IF bProperties[bStructureID] < bLastOffset[bStructureID]
                THEN bLastOffset[bStructureID] ELSE bLastOffset[bStructureID] + 1),
           B!outOfLineCapacity(bLastOffset[bStructureID]) = B!outOfLineCapacity(n)
    PROVE  ObjectInv'
<1>f. PICK f, s, o, new, list :
        /\ f = B!Fresh /\ s = bStructureID /\ o = bLastOffset[s] /\ new = n
        /\ list = B!Store("setLastOffset", new) \o B!putDirect
  BY Zenon
<1>a. B!Begin(list)
  BY <1>f, Zenon DEF B!prepareToPutDirectWithoutTransition
<1>g. f = B!Fresh /\ s = bStructureID /\ o = bLastOffset[bStructureID]
  BY <1>f, Zenon
<1>b. /\ bStores = <<>> /\ bStores' = list
      /\ UNCHANGED <<bStructureID, bNuked, bButterfly>>
      /\ f \in B!Structures /\ f \in B!Butterflies /\ f \in Nat \ {0}
      /\ s \in B!Structures /\ s # f
      /\ bButterfly \in {0} \cup B!Butterflies /\ bButterfly # f
      /\ o \in 0 .. MaxSize /\ bProperties[s] \in 0 .. MaxSize /\ MaxSize \in Nat /\ ~bNuked
  BY <1>a, <1>g, Begun
<1>q. /\ bButterfly = 0 <=> o = 0
      /\ bButterfly # 0 => bCapacity[bButterfly] = B!outOfLineCapacity(o)
      /\ bProperties[s] <= o
  BY <1>b, <1>g, Quiet, Zenon
<1>t. /\ bLastOffset \in [B!Structures -> 0 .. MaxSize] /\ bProperties \in [B!Structures -> 0 .. MaxSize]
      /\ bKind \in [B!Structures -> B!Kinds] /\ bCapacity \in [B!Butterflies -> Nat]
  BY Zenon DEF ObjectInv, B!TypeOK
<1>n. /\ new \in 1 .. MaxSize /\ new \in 0 .. MaxSize /\ new >= o /\ new # 0 /\ bButterfly # 0
      /\ bProperties[s] + 1 \in 0 .. MaxSize /\ bProperties[s] + 1 <= new
      /\ B!outOfLineCapacity(new) = B!outOfLineCapacity(o)
  <2>1. new = IF bProperties[s] < o THEN o ELSE o + 1
    BY <1>f, Zenon
  <2>2. new <= MaxSize
    BY <1>f, Zenon DEF B!prepareToPutDirectWithoutTransition
  <2>3. B!outOfLineCapacity(new) = B!outOfLineCapacity(o)
    BY <1>f, Zenon
  <2>4. o # 0
    <3>1. o = 0 => new = 1
      BY <2>1, <1>b
    <3>2. QED
      BY <3>1, <2>3, Capacities
  <2>5. bProperties[s] + 1 <= new
    <3>1. CASE bProperties[s] < o
      BY <3>1, <2>1, <1>b
    <3>2. CASE ~(bProperties[s] < o)
      BY <3>2, <2>1, <1>b, <1>q
    <3>3. QED
      BY <3>1, <3>2, Zenon
  <2>6. new >= o /\ new \in Nat
    BY <2>1, <1>b
  <2>7. QED
    BY <2>2, <2>3, <2>4, <2>5, <2>6, <1>b, <1>q
<1>l. /\ list \in Seq(StoreRecord) /\ Len(list) = 3 /\ DOMAIN list = 1 .. 3
      /\ list[1].to = "setLastOffset" /\ list[1].value = new /\ list[2].to = "putDirect"
         /\ list[3].to = "barrier"
  <2>1. f \in Nat /\ new \in Nat /\ list = B!Store("setLastOffset", new) \o B!putDirect
    BY <1>f, <1>b, <1>n
  <2>2. PrepareInPlaceStores(list, new)
    BY <2>1, PrepareInPlace, Zenon
  <2>3. DOMAIN list = 1 .. 3
    <3>1. list \in Seq(StoreRecord) /\ Len(list) = 3
      BY <2>2, Zenon DEF PrepareInPlaceStores
    <3>2. QED
      BY <3>1
  <2>4. QED
    BY <2>2, <2>3, Zenon DEF PrepareInPlaceStores
<1>m. /\ DOMAIN list = 1 .. 3
      /\ \A i \in DOMAIN list : list[i].to # "setStructure"
      /\ \A i \in DOMAIN list : list[i].to # "setButterfly"
      /\ \A i \in DOMAIN list : list[i].to = "setLastOffset" <=> i = 1
      /\ 1 \in DOMAIN list /\ list[1].value = new
  BY <1>l
<1>e. /\ UNCHANGED <<bLastOffset, bKind>> /\ bProperties' = [bProperties EXCEPT ![s] = bProperties[s] + 1]
      /\ bCapacity' = bCapacity
  BY <1>f, Zenon DEF B!prepareToPutDirectWithoutTransition
<1>1. OrderInv'
  BY <1>b, <1>l DEF OrderInv, Unnukes
<1>2. FitInv'
  <2>1. Becomes(s, bButterfly, new)'
    BY <1>b, <1>g, <1>m, <1>e, <1>t, <1>n, Zenon DEF Becomes
  <2>2. new # 0 /\ new \in 0 .. MaxSize
    BY <1>b, <1>e, <1>t, <1>n, <1>q, Zenon
  <2>3. bCapacity'[bButterfly] = B!outOfLineCapacity(new) /\ bProperties'[s] <= new
    BY <1>b, <1>e, <1>t, <1>n, <1>q, Zenon
  <2>4. QED
    BY <1>b, <1>n, <2>1, <2>2, <2>3, Zenon DEF FitInv
<1>3. GrowthInv'
  <2>1. bLastOffset'[bStructureID] = o /\ (bButterfly # 0 => bCapacity'[bButterfly] = B!outOfLineCapacity(o))
    BY <1>f, <1>b, <1>e, <1>t, <1>q, Zenon
  <2>2. \A i \in DOMAIN bStores' : bStores'[i].to # "setButterfly"
    BY <1>b, <1>m, Zenon
  <2>3. ASSUME NEW i \in DOMAIN bStores', bStores'[i].to = "setLastOffset"
        PROVE  /\ bStores'[i].value >= bLastOffset'[bStructureID']
               /\ \/ NukedAt(i)'
                  \/ B!outOfLineCapacity(bStores'[i].value) = B!outOfLineCapacity(bLastOffset'[bStructureID'])
               /\ \A j \in DOMAIN bStores' : bStores'[j].to = "setLastOffset" => j = i
    <3>1. i = 1 /\ \A j \in DOMAIN bStores' : bStores'[j].to = "setLastOffset" => j = i
      BY <1>b, <1>m, <2>3, Zenon
    <3>2. bStores'[i].value = new /\ new >= bLastOffset'[bStructureID']
      BY <1>b, <1>m, <1>n, <2>1, <3>1, Zenon
    <3>3. B!outOfLineCapacity(bStores'[i].value) = B!outOfLineCapacity(bLastOffset'[bStructureID'])
      BY <1>b, <1>l, <1>n, <2>1, <3>1, <3>2, Zenon DEF NukedAt
    <3>4. QED
      BY <3>1, <3>2, <3>3, Zenon
  <2>4. QED
    BY <1>b, <2>1, <2>2, <2>3, Zenon DEF GrowthInv
<1>4. list \in Seq(StoreRecord) /\ list # <<>>
  <2>1. list \in Seq(StoreRecord) /\ Len(list) = 3
    BY <1>l, Zenon
  <2>2. Len(list) # 0
    BY <2>1
  <2>3. QED
    BY <2>1, <2>2, Occupied, Zenon
<1>5. \A i \in DOMAIN list :
         /\ list[i].to = "setStructure" => list[i].value = B!Fresh
         /\ list[i].to = "setButterfly" => list[i].value \in {0, B!Fresh}
         /\ list[i].to = "setLastOffset" => list[i].value <= MaxSize
  BY <1>g, <1>m, <1>n
<1>6. /\ bLastOffset' \in [B!Structures -> 0 .. MaxSize] /\ bProperties' \in [B!Structures -> 0 .. MaxSize]
      /\ bKind' \in [B!Structures -> B!Kinds] /\ bCapacity' \in [B!Butterflies -> Nat]
      /\ \A t \in B!Structures : t # B!Fresh => bLastOffset'[t] = bLastOffset[t]
      /\ \A b \in B!Butterflies : b # B!Fresh => bCapacity'[b] = bCapacity[b]
  BY <1>g, <1>b, <1>e, <1>t, <1>n, <1>q, Zenon
<1>7. QED
  BY <1>a, <1>1, <1>2, <1>3, <1>4, <1>5, <1>6, BegunInv, Zenon

(* deleteProperty in an uncacheable dictionary changes only its table.     *)
LEMMA DeleteInPlaceInv ==
    ASSUME ObjectInv, B!Begin(<<>>), bProperties[bStructureID] > 0,
           bProperties' = [bProperties EXCEPT ![bStructureID] = @ - 1],
           UNCHANGED <<bLastOffset, bKind, bCapacity>>
    PROVE  ObjectInv'
<1>f. PICK s, b, o : s = bStructureID /\ b = bButterfly /\ o = bLastOffset[bStructureID]
  BY Zenon
<1>b. /\ bStores' = <<>> /\ UNCHANGED <<bStructureID, bNuked, bButterfly>>
      /\ s \in B!Structures /\ b \in {0} \cup B!Butterflies
      /\ o \in 0 .. MaxSize /\ bProperties[s] \in 0 .. MaxSize /\ MaxSize \in Nat /\ ~bNuked
  BY <1>f, Begun, Zenon
<1>q. /\ b = 0 <=> o = 0
      /\ b # 0 => bCapacity[b] = B!outOfLineCapacity(o)
      /\ bProperties[s] <= o
  BY <1>f, Begun, Quiet, Zenon
<1>t. /\ bLastOffset \in [B!Structures -> 0 .. MaxSize] /\ bProperties \in [B!Structures -> 0 .. MaxSize]
      /\ bKind \in [B!Structures -> B!Kinds] /\ bCapacity \in [B!Butterflies -> Nat]
  BY Zenon DEF ObjectInv, B!TypeOK
<1>d. DOMAIN bStores' = {}
  BY <1>b
<1>1. OrderInv'
  BY <1>b, <1>d, Zenon DEF OrderInv
<1>p. bProperties'[s] <= o /\ bProperties' \in [B!Structures -> 0 .. MaxSize]
  BY <1>f, <1>b, <1>q, <1>t
<1>2. FitInv'
  <2>1. Becomes(s, b, o)'
    BY <1>b, <1>f, <1>d, Zenon DEF Becomes
  <2>2. QED
    BY <1>b, <1>q, <1>p, <2>1, Zenon DEF FitInv
<1>3. GrowthInv'
  BY <1>b, <1>f, <1>q, <1>d, Zenon DEF GrowthInv
<1>4. <<>> \in Seq(StoreRecord) /\ DOMAIN <<>> = {}
  OBVIOUS
<1>5. QED
  BY <1>t, <1>p, <1>1, <1>2, <1>3, <1>4, BegunInv, Zenon

(* A dictionary is flattened. *)
LEMMA FlattenInv ==
    ASSUME ObjectInv, B!flattenDictionaryStructure
    PROVE  ObjectInv'
<1>f. PICK f, s, o, after, shrinks, target, c, r, list :
        /\ f = B!Fresh /\ s = bStructureID /\ o = bLastOffset[bStructureID]
        /\ after = IF bKind[s] = "Uncached" THEN bProperties[s] ELSE o
        /\ shrinks = (bButterfly # 0 /\ B!outOfLineCapacity(o) # B!outOfLineCapacity(after))
        /\ target = IF after = 0 THEN 0 ELSE f
        /\ c = IF bKind[s] = "Uncached" THEN B!Compaction ELSE <<>>
        /\ r = IF shrinks THEN B!setButterfly(target) ELSE <<>>
        /\ list = B!Store("nuke", 0) \o c \o r \o B!Store("setStructureIDDirectly", 0) \o B!Barrier
  BY Zenon
<1>a. B!Begin(list)
  BY <1>f, Zenon DEF B!flattenDictionaryStructure
<1>g. f = B!Fresh /\ s = bStructureID /\ o = bLastOffset[bStructureID]
  BY <1>f, Zenon
<1>b. /\ bStores = <<>> /\ bStores' = list
      /\ UNCHANGED <<bFlattens, bStructureID, bNuked, bButterfly>>
      /\ f \in B!Structures /\ f \in B!Butterflies /\ f \in Nat \ {0}
      /\ s \in B!Structures /\ s # f
      /\ bButterfly \in {0} \cup B!Butterflies /\ bButterfly # f
      /\ o \in 0 .. MaxSize /\ bProperties[s] \in 0 .. MaxSize /\ MaxSize \in Nat /\ ~bNuked
  BY <1>a, <1>g, Begun
<1>q. /\ bButterfly = 0 <=> o = 0
      /\ bButterfly # 0 => bCapacity[bButterfly] = B!outOfLineCapacity(o)
      /\ bProperties[s] <= o
  BY <1>b, <1>g, Quiet, Zenon
<1>t. /\ bLastOffset \in [B!Structures -> 0 .. MaxSize] /\ bProperties \in [B!Structures -> 0 .. MaxSize]
      /\ bKind \in [B!Structures -> B!Kinds] /\ bCapacity \in [B!Butterflies -> Nat]
  BY Zenon DEF ObjectInv, B!TypeOK
<1>n. /\ after \in 0 .. MaxSize /\ bProperties[s] <= after /\ after <= o
      /\ target \in Nat /\ target \in {0, f} /\ (target = 0 <=> after = 0)
      /\ B!outOfLineCapacity(after) \in Nat
  <2>1. after \in 0 .. MaxSize /\ bProperties[s] <= after /\ after <= o
    BY <1>f, <1>b, <1>q
  <2>2. target \in Nat /\ target \in {0, f} /\ (target = 0 <=> after = 0)
    BY <1>f, <1>b, Zenon
  <2>3. QED
    BY <2>1, <2>2, Capacities, Zenon
<1>c. /\ c \in Seq(StoreRecord) /\ Len(c) \in Nat
      /\ bKind[s] = "Uncached" => CompactionStores(c, after)
      /\ bKind[s] # "Uncached" => Len(c) = 0
  <2>1. CASE bKind[s] = "Uncached"
    <3>1. c = B!Compaction /\ after = bProperties[bStructureID] /\ after \in Nat
      BY <1>f, <1>b, <2>1
    <3>2. CompactionStores(c, after)
      BY <3>1, Compacting, Zenon
    <3>3. c \in Seq(StoreRecord)
      BY <3>2, Zenon DEF CompactionStores
    <3>4. QED
      BY <2>1, <3>2, <3>3
  <2>2. CASE bKind[s] # "Uncached"
    <3>1. c = <<>>
      BY <1>f, <2>2, Zenon
    <3>2. QED
      BY <2>2, <3>1
  <2>3. QED
    BY <2>1, <2>2, Zenon
<1>r. /\ r \in Seq(StoreRecord) /\ Len(r) \in Nat
      /\ shrinks => /\ Len(r) = 2 /\ r[1].to = "setButterfly" /\ r[1].value = target
                    /\ r[2].to = "barrier"
      /\ ~shrinks => Len(r) = 0
  <2>1. CASE shrinks
    <3>1. r = B!Store("setButterfly", target) \o B!Barrier /\ "setButterfly" \in B!Stores
      BY <1>f, <2>1, Zenon DEF B!setButterfly, B!Stores
    <3>2. /\ r \in Seq(StoreRecord) /\ Len(r) = 2 /\ r[1].to = "setButterfly" /\ r[1].value = target
          /\ r[2].to = "barrier"
      BY <1>n, <3>1, Barred
    <3>3. QED
      BY <2>1, <3>2
  <2>2. CASE ~shrinks
    <3>1. r = <<>>
      BY <1>f, <2>2, Zenon
    <3>2. QED
      BY <2>2, <3>1
  <2>3. QED
    BY <2>1, <2>2, Zenon
<1>l. FlattenStores(list, c, r)
  BY <1>f, <1>c, <1>r, Flattening, Zenon
<1>n2. PICK n : n = 1 + Len(c) + Len(r)
  BY Zenon
<1>m. /\ n \in Nat \ {0} /\ list \in Seq(StoreRecord) /\ Len(list) = n + 2 /\ DOMAIN list = 1 .. n + 2
      /\ list[1].to = "nuke" /\ list[n + 1].to = "setStructureIDDirectly" /\ list[n + 2].to = "barrier"
      /\ \A i \in 2 .. 1 + Len(c) : list[i] = c[i - 1]
      /\ \A i \in 2 + Len(c) .. n : list[i] = r[i - 1 - Len(c)]
  <2>1. n \in Nat \ {0} /\ list \in Seq(StoreRecord) /\ Len(list) = n + 2
    BY <1>c, <1>r, <1>l, <1>n2 DEF FlattenStores
  <2>2. DOMAIN list = 1 .. n + 2
    BY <2>1
  <2>3. QED
    BY <2>1, <2>2, <1>l, <1>n2, Zenon DEF FlattenStores
(* In the middle are only the last offsets, the values, the butterfly and their barriers. *)
<1>o. ASSUME NEW i \in 2 .. n
      PROVE  /\ list[i].to \in {"setLastOffset", "putDirect", "barrier", "setButterfly"}
             /\ list[i].to = "setButterfly" => shrinks /\ list[i].value = target
             /\ list[i].to = "setLastOffset" =>
                   /\ bKind[s] = "Uncached" /\ i \in 2 .. 1 + Len(c)
                   /\ list[i].value <= after /\ (list[i].value = after \/ i < after + 2)
  <2>1. CASE i \in 2 .. 1 + Len(c)
    <3>1. i - 1 \in 1 .. Len(c) /\ list[i] = c[i - 1]
      BY <1>c, <1>m, <2>1
    <3>2. bKind[s] = "Uncached"
      BY <1>c, <3>1
    <3>3. /\ c[i - 1].to \in {"setLastOffset", "putDirect", "barrier"}
          /\ c[i - 1].to = "setLastOffset" => c[i - 1].value <= after /\ (c[i - 1].value = after \/ i - 1 < after + 1)
      BY <1>c, <3>1, <3>2, Zenon DEF CompactionStores
    <3>4. i - 1 < after + 1 => i < after + 2
      BY <1>n, <2>1
    <3>5. QED
      BY <2>1, <3>1, <3>2, <3>3, <3>4, Zenon
  <2>2. CASE i \in 2 + Len(c) .. n
    <3>1. i - 1 - Len(c) \in 1 .. Len(r) /\ list[i] = r[i - 1 - Len(c)]
      BY <1>c, <1>r, <1>m, <1>n2, <2>2
    <3>2. shrinks /\ i - 1 - Len(c) \in 1 .. 2
      BY <1>r, <3>1
    <3>3. i - 1 - Len(c) = 1 \/ i - 1 - Len(c) = 2
      BY <1>c, <3>2
    <3>4. list[i] = r[1] \/ list[i] = r[2]
      BY <3>1, <3>3, Zenon
    <3>5. QED
      BY <1>r, <3>2, <3>4, Zenon
  <2>3. QED
    BY <1>c, <1>m, <2>1, <2>2
<1>d. \A i \in DOMAIN list : i \in Int /\ (i = 1 \/ i \in 2 .. n \/ i = n + 1 \/ i = n + 2)
  BY <1>m
<1>1. OrderInv'
  <2>1. bStores'[Len(bStores')].to = "barrier"
    BY <1>b, <1>m, Zenon
  <2>2. n + 1 \in DOMAIN list /\ n + 2 \in DOMAIN list /\ 1 < n + 1
    BY <1>m
  <2>3. \A i \in DOMAIN list : list[i].to \in Unnukes => i = n + 1
    BY <1>d, <1>m, <1>o, Zenon DEF Unnukes
  <2>4. \A i \in DOMAIN list : list[i].to = "nuke" => i = 1
    BY <1>d, <1>m, <1>o, Zenon
  <2>5. \A i, j \in DOMAIN list : i < j /\ list[i].to \in Unnukes => list[j].to \in {"putDirect", "barrier"}
    <3>1. ASSUME NEW i \in DOMAIN list, NEW j \in DOMAIN list, i < j, list[i].to \in Unnukes
          PROVE  j = n + 2
      BY <1>d, <1>m, <2>3, <3>1
    <3>2. QED
      BY <1>m, <3>1, Zenon
  <2>6. list[n + 1].to \in Unnukes
    BY <1>m, Zenon DEF Unnukes
  <2>7. \A i \in DOMAIN list : list[i].to # "setStructure"
    BY <1>d, <1>m, <1>o, Zenon
  <2>8. QED
    BY <1>b, <2>1, <2>2, <2>4, <2>5, <2>6, <2>7, Zenon DEF OrderInv
<1>e. /\ UNCHANGED <<bLastOffset, bProperties>> /\ bKind' = [bKind EXCEPT ![s] = "None"] /\ "None" \in B!Kinds
      /\ shrinks => bCapacity' = [bCapacity EXCEPT ![f] = B!outOfLineCapacity(after)]
      /\ ~shrinks => bCapacity' = bCapacity
      /\ bFlattens
  BY <1>f, Zenon DEF B!flattenDictionaryStructure, B!Kinds
<1>w. PICK b : b = IF shrinks THEN target ELSE bButterfly
  BY Zenon
<1>2. FitInv'
  <2>1. \A i \in DOMAIN list : list[i].to # "setStructure"
    BY <1>d, <1>m, <1>o, Zenon
  <2>2. ASSUME NEW i \in DOMAIN list, list[i].to = "setButterfly"
        PROVE  shrinks /\ list[i].value = target
    BY <1>d, <1>m, <1>o, <2>2, Zenon
  <2>3. shrinks => \E i \in DOMAIN list : list[i].to = "setButterfly"
    <3>1. ASSUME shrinks
          PROVE  2 + Len(c) \in DOMAIN list /\ list[2 + Len(c)].to = "setButterfly"
      <4>0. Len(r) = 2 /\ Len(c) \in Nat
        BY <1>c, <1>r, <3>1, Zenon
      <4>1. 2 + Len(c) \in 2 + Len(c) .. n /\ 2 + Len(c) - 1 - Len(c) = 1 /\ 2 + Len(c) \in 1 .. n + 2
        BY <1>n2, <4>0
      <4>2. list[2 + Len(c)] = r[1]
        BY <1>m, <4>1
      <4>3. QED
        BY <1>m, <1>r, <3>1, <4>1, <4>2, Zenon
    <3>2. QED
      BY <3>1, Zenon
  <2>4. bKind[s] = "Uncached" => after + 2 \in DOMAIN list /\ list[after + 2].to = "setLastOffset"
    <3>1. ASSUME bKind[s] = "Uncached"
          PROVE  after + 2 \in DOMAIN list /\ list[after + 2].to = "setLastOffset"
      <4>1. after + 1 \in 1 .. Len(c) /\ c[after + 1].to = "setLastOffset"
        BY <1>c, <3>1, Zenon DEF CompactionStores
      <4>2. after + 2 \in 2 .. 1 + Len(c) /\ after + 2 - 1 = after + 1 /\ after + 2 \in 1 .. n + 2
        BY <1>c, <1>r, <1>n, <1>n2, <4>1
      <4>3. list[after + 2] = c[after + 1]
        <5>1. PICK k : k = after + 2
          BY Zenon
        <5>2. k \in 2 .. 1 + Len(c) /\ k - 1 = after + 1
          BY <1>b, <1>n, <4>2, <5>1
        <5>3. list[k] = c[k - 1]
          BY <1>m, <5>2, Zenon
        <5>4. QED
          BY <5>1, <5>2, <5>3, Zenon
      <4>4. QED
        BY <1>m, <4>1, <4>2, <4>3, Zenon
    <3>2. QED
      BY <3>1, Zenon
  <2>5. ASSUME NEW i \in DOMAIN list, list[i].to = "setLastOffset"
        PROVE  bKind[s] = "Uncached" /\ (list[i].value = after \/ i < after + 2)
    BY <1>d, <1>m, <1>o, <2>5, Zenon
  <2>6. bKind[s] # "Uncached" => bLastOffset'[s] = after
    BY <1>f, <1>e, Zenon
  <2>7. Becomes(s, b, after)'
    <3>1. \A i \in DOMAIN list : list[i].to = "setButterfly" => list[i].value = b
      BY <1>w, <2>2, Zenon
    <3>2. (\A i \in DOMAIN list : list[i].to # "setButterfly") => bButterfly = b
      BY <1>w, <2>3, Zenon
    <3>3. \A i \in DOMAIN list : list[i].to = "setLastOffset" =>
             list[i].value = after \/ \E j \in DOMAIN list : i < j /\ list[j].to = "setLastOffset"
      BY <2>4, <2>5, Zenon
    <3>4. (\A i \in DOMAIN list : list[i].to # "setLastOffset") => bLastOffset'[s] = after
      BY <2>4, <2>6, Zenon
    <3>5. QED
      BY <1>b, <1>g, <2>1, <3>1, <3>2, <3>3, <3>4, Zenon DEF Becomes
  <2>8. b = 0 <=> after = 0
    <3>1. CASE shrinks
      BY <1>w, <1>n, <3>1, Zenon
    <3>2. CASE ~shrinks /\ bButterfly = 0
      BY <1>w, <1>n, <1>b, <1>q, <3>2
    <3>3. CASE ~shrinks /\ bButterfly # 0
      <4>1. B!outOfLineCapacity(o) = B!outOfLineCapacity(after) /\ o # 0
        BY <1>f, <1>q, <3>3, Zenon
      <4>2. o \in 1 .. MaxSize
        BY <1>b, <4>1
      <4>3. after # 0
        BY <4>1, <4>2, Capacities, Zenon
      <4>4. QED
        BY <1>w, <3>3, <4>3, Zenon
    <3>4. QED
      BY <3>1, <3>2, <3>3, Zenon
  <2>9. b # 0 => bCapacity'[b] = B!outOfLineCapacity(after)
    <3>1. CASE shrinks
      BY <1>b, <1>e, <1>n, <1>t, <1>w, <3>1, Zenon
    <3>2. CASE ~shrinks
      BY <1>e, <1>f, <1>q, <1>w, <3>2, Zenon
    <3>3. QED
      BY <3>1, <3>2, Zenon
  <2>10. b \in {0} \cup B!Butterflies /\ bProperties'[s] <= after
    BY <1>b, <1>e, <1>n, <1>w, Zenon
  <2>11. QED
    BY <1>b, <1>n, <2>7, <2>8, <2>9, <2>10, Zenon DEF FitInv
<1>4. list \in Seq(StoreRecord) /\ list # <<>>
  <2>1. list \in Seq(StoreRecord) /\ Len(list) # 0
    BY <1>m
  <2>2. QED
    BY <2>1, Occupied, Zenon
<1>5. \A i \in DOMAIN list :
         /\ list[i].to = "setStructure" => list[i].value = B!Fresh
         /\ list[i].to = "setButterfly" => list[i].value \in {0, B!Fresh}
         /\ list[i].to = "setLastOffset" => list[i].value <= MaxSize
  <2>1. ASSUME NEW i \in DOMAIN list
        PROVE  /\ list[i].to # "setStructure"
               /\ list[i].to = "setButterfly" => list[i].value = target
               /\ list[i].to = "setLastOffset" => list[i].value \in Int /\ list[i].value <= after
    <3>1. list[i].value \in Int
      <4>1. list \in Seq(StoreRecord) /\ i \in DOMAIN list
        BY <1>m, <2>1, Zenon
      <4>2. list[i] \in StoreRecord
        BY <4>1
      <4>3. QED
        BY <4>2 DEF StoreRecord
    <3>2. QED
      BY <1>d, <1>m, <1>o, <2>1, <3>1, Zenon
  <2>2. \A v \in Int : v <= after => v <= MaxSize
    BY <1>n, <1>b
  <2>3. QED
    BY <1>g, <1>n, <2>1, <2>2, Zenon
<1>6. /\ bLastOffset' \in [B!Structures -> 0 .. MaxSize] /\ bProperties' \in [B!Structures -> 0 .. MaxSize]
      /\ bKind' \in [B!Structures -> B!Kinds] /\ bCapacity' \in [B!Butterflies -> Nat]
      /\ \A t \in B!Structures : t # B!Fresh => bLastOffset'[t] = bLastOffset[t]
      /\ \A t \in B!Butterflies : t # B!Fresh => bCapacity'[t] = bCapacity[t]
  BY <1>g, <1>b, <1>e, <1>t, <1>n, Zenon
<1>7. QED
  BY <1>a, <1>e, <1>1, <1>2, <1>4, <1>5, <1>6, BegunInv, Zenon

(* Every operation that begins keeps the invariant. *)
LEMMA OperateInv ==
    ASSUME ObjectInv, B!operate
    PROVE  ObjectInv'
<1>t. /\ bProperties[bStructureID] \in 0 .. MaxSize /\ MaxSize \in Nat
      /\ bStructureID \in B!Structures
  BY ObjectAssumption, Zenon DEF ObjectInv, B!TypeOK, B!ButterflyAssumption
<1>1. CASE B!addPropertyTransition
  BY <1>1, AddGrowingInv, AddInPlaceInv, Zenon
<1>2. CASE B!toDictionaryTransition
  <2>1. /\ B!Begin(B!setStructure(B!Fresh)) /\ "Cached" \in B!Kinds
        /\ B!NewStructure(bLastOffset[bStructureID], bProperties[bStructureID], "Cached")
           /\ UNCHANGED bCapacity
    BY <1>2, Zenon DEF B!toDictionaryTransition, B!Kinds
  <2>2. bProperties[bStructureID] <= bLastOffset[bStructureID]
    BY <2>1, Begun, Quiet, Zenon
  <2>3. QED
    BY <1>t, <2>1, <2>2, TransitionInv, Zenon
<1>3. CASE B!deleteProperty
  <2>1. CASE bKind[bStructureID] = "Uncached"
    BY <1>3, <2>1, DeleteInPlaceInv, Zenon DEF B!deleteProperty
  <2>2. CASE bKind[bStructureID] # "Uncached"
    <3>1. /\ B!Begin(B!setStructure(B!Fresh)) /\ "Uncached" \in B!Kinds /\ bProperties[bStructureID] > 0
          /\ B!NewStructure(bLastOffset[bStructureID], bProperties[bStructureID] - 1, "Uncached") /\ UNCHANGED bCapacity
      BY <1>3, <2>2, Zenon DEF B!deleteProperty, B!Kinds
    <3>2. bProperties[bStructureID] <= bLastOffset[bStructureID]
          /\ bLastOffset[bStructureID] \in 0 .. MaxSize
      BY <3>1, Begun, Quiet, Zenon
    <3>3. /\ bProperties[bStructureID] - 1 \in 0 .. MaxSize
          /\ bProperties[bStructureID] - 1 <= bLastOffset[bStructureID]
      BY <1>t, <3>1, <3>2
    <3>4. QED
      BY <3>1, <3>3, TransitionInv, Zenon
  <2>3. QED
    BY <2>1, <2>2, Zenon
<1>4. CASE B!prepareToPutDirectWithoutTransition
  <2>1. PICK n : n = IF bProperties[bStructureID] < bLastOffset[bStructureID]
                     THEN bLastOffset[bStructureID] ELSE bLastOffset[bStructureID] + 1
    BY Zenon
  <2>2. CASE B!outOfLineCapacity(bLastOffset[bStructureID]) # B!outOfLineCapacity(n)
    BY <1>4, <2>1, <2>2, PrepareGrowingInv, Zenon
  <2>3. CASE B!outOfLineCapacity(bLastOffset[bStructureID]) = B!outOfLineCapacity(n)
    BY <1>4, <2>1, <2>3, PrepareInPlaceInv, Zenon
  <2>4. QED
    BY <2>2, <2>3, Zenon
<1>5. CASE B!flattenDictionaryStructure
  BY <1>5, FlattenInv, Zenon
<1>6. QED
  BY <1>1, <1>2, <1>3, <1>4, <1>5, Zenon DEF B!operate

-----------------------------------------------------------------------------
(* A store *)

\* The stores left are those after the first.
Shifts(p, q) ==
    /\ q = <<>> <=> Len(p) = 1
    /\ Len(p) \in Nat \ {0} /\ 1 \in DOMAIN p /\ Len(p) \in DOMAIN p
    /\ q # <<>> => Len(q) \in DOMAIN q /\ q[Len(q)] = p[Len(p)]
    /\ \A i \in DOMAIN q : i \in Int /\ i >= 1 /\ i + 1 \in DOMAIN p /\ q[i] = p[i + 1]
    /\ \A i \in DOMAIN p : i \in Int /\ i >= 1 /\ (i # 1 => i - 1 \in DOMAIN q /\ q[i - 1] = p[i] /\ i > 1)

LEMMA StoreShifts ==
    ASSUME ObjectInv, B!store
    PROVE  /\ bStores \in Seq(StoreRecord) /\ bStores' \in Seq(StoreRecord) /\ Shifts(bStores, bStores')
           /\ bStores[1] \in StoreRecord
<1>1. bStores \in Seq(StoreRecord) /\ bStores # <<>> /\ bStores' = Tail(bStores)
  BY Zenon DEF ObjectInv, B!TypeOK, B!store, StoreRecord
<1>2. /\ Len(bStores) \in Nat \ {0} /\ DOMAIN bStores = 1 .. Len(bStores) /\ bStores[1] \in StoreRecord /\ 1 \in DOMAIN bStores
      /\ bStores' \in Seq(StoreRecord) /\ Len(bStores') = Len(bStores) - 1
         /\ DOMAIN bStores' = 1 .. Len(bStores) - 1
      /\ bStores' = <<>> <=> Len(bStores) = 1
      /\ \A i \in DOMAIN bStores' : i \in Int /\ i >= 1 /\ i + 1 \in DOMAIN bStores /\ bStores'[i] = bStores[i + 1]
      /\ \A i \in DOMAIN bStores : i # 1 => i - 1 \in DOMAIN bStores' /\ bStores'[i - 1] = bStores[i] /\ i \in Int /\ i > 1
  BY <1>1, Shifted, Zenon
<1>3. Len(bStores) \in DOMAIN bStores /\ \A i \in DOMAIN bStores : i \in Int /\ i >= 1
  BY <1>2
<1>4. bStores' # <<>> => Len(bStores') \in DOMAIN bStores' /\ bStores'[Len(bStores')] = bStores[Len(bStores)]
  BY <1>2, <1>3, Zenon
<1>5. QED
  BY <1>1, <1>2, <1>3, <1>4, Zenon DEF Shifts

\* What the first store h does.
StoreDone(h) ==
    /\ h.to \in B!Stores /\ h.value \in Nat
    /\ UNCHANGED <<bFlattens, bRaced, bKind, bProperties, bCapacity, bOperations, bVisit, bScanned>>
    /\ h.to = "nuke" => bNuked'
    /\ h.to \in Unnukes => ~bNuked'
    /\ h.to \notin Unnukes \cup {"nuke"} => UNCHANGED bNuked
    /\ bStructureID' = IF h.to = "setStructure" THEN h.value ELSE bStructureID
    /\ bButterfly' = IF h.to = "setButterfly" THEN h.value ELSE bButterfly
    /\ h.to = "setLastOffset" => bLastOffset' = [bLastOffset EXCEPT ![bStructureID] = h.value]
    /\ h.to # "setLastOffset" => bLastOffset' = bLastOffset
    /\ bValues' \in Nat
    /\ h.to = "barrier" => bBlack' = FALSE /\ bQueued' = (bQueued \/ bBlack)
    /\ h.to # "barrier" => UNCHANGED <<bBlack, bQueued>>

LEMMA StoreEffect ==
    ASSUME ObjectInv, B!store
    PROVE  StoreDone(bStores[1])
<1>1. bStores[1] \in StoreRecord /\ Head(bStores) = bStores[1]
  <2>1. bStores \in Seq(StoreRecord) /\ bStores # <<>>
    BY Zenon DEF ObjectInv, B!TypeOK, B!store, StoreRecord
  <2>2. QED
    BY <2>1, Shifted, Zenon
<1> DEFINE h == bStores[1]
<1>2. h.to \in B!Stores /\ h.value \in Nat
  BY <1>1, Zenon DEF StoreRecord
<1>3. /\ UNCHANGED <<bFlattens, bRaced, bKind, bProperties, bCapacity, bOperations, bVisit, bScanned>>
      /\ bNuked' = CASE h.to = "nuke" -> TRUE
                     [] h.to \in {"setStructure", "setStructureIDDirectly"} -> FALSE
                     [] OTHER -> bNuked
      /\ bStructureID' = IF h.to = "setStructure" THEN h.value ELSE bStructureID
      /\ bButterfly' = IF h.to = "setButterfly" THEN h.value ELSE bButterfly
      /\ bValues' = IF h.to = "putDirect" THEN bValues + 1 ELSE bValues
      /\ bLastOffset' = IF h.to = "setLastOffset" THEN [bLastOffset EXCEPT ![bStructureID] = h.value] ELSE bLastOffset
      /\ bBlack' = IF h.to = "barrier" THEN FALSE ELSE bBlack
      /\ bQueued' = (bQueued \/ (h.to = "barrier" /\ bBlack))
  BY <1>1, Zenon DEF B!store
<1>4. bValues' \in Nat
  BY <1>3 DEF ObjectInv, B!TypeOK
<1> HIDE DEF h
<1>5. /\ h.to = "nuke" => bNuked'
      /\ h.to \in Unnukes => ~bNuked'
      /\ h.to \notin Unnukes \cup {"nuke"} => UNCHANGED bNuked
  BY <1>3, Zenon DEF Unnukes
<1>6. /\ h.to = "setLastOffset" => bLastOffset' = [bLastOffset EXCEPT ![bStructureID] = h.value]
      /\ h.to # "setLastOffset" => bLastOffset' = bLastOffset
  BY <1>3, Zenon
<1>7. /\ h.to = "barrier" => bBlack' = FALSE /\ bQueued' = (bQueued \/ bBlack)
      /\ h.to # "barrier" => UNCHANGED <<bBlack, bQueued>>
  <2>1. bQueued \in BOOLEAN /\ bBlack \in BOOLEAN
    BY Zenon DEF ObjectInv, B!TypeOK
  <2>2. CASE h.to = "barrier"
    BY <1>3, <2>1, <2>2, Zenon
  <2>3. CASE h.to # "barrier"
    BY <1>3, <2>1, <2>3, Zenon
  <2>4. QED
    BY <2>2, <2>3, Zenon
<1>8. QED
  BY <1>2, <1>3, <1>4, <1>5, <1>6, <1>7, Zenon DEF h, StoreDone

LEMMA StoreTyped ==
    ASSUME ObjectInv, B!store
    PROVE  /\ B!TypeOK' /\ bStructureID \in B!Structures /\ bStructureID' \in B!Structures
           /\ bLastOffset \in [B!Structures -> 0 .. MaxSize]
              /\ bLastOffset' \in [B!Structures -> 0 .. MaxSize]
<1> DEFINE h == bStores[1]
<1>1. /\ bStores \in Seq(StoreRecord) /\ bStores' \in Seq(StoreRecord) /\ Shifts(bStores, bStores')
      /\ h \in StoreRecord /\ StoreDone(h)
  BY StoreShifts, StoreEffect, Zenon
<1>2. 1 \in DOMAIN bStores
  BY <1>1, Zenon DEF Shifts
<1> HIDE DEF h
<1>3. /\ h.to = "setStructure" => bStructureID < h.value /\ h.value <= bOperations + 1
      /\ h.to = "setButterfly" => h.value <= bOperations + 1
      /\ h.to = "setLastOffset" => h.value <= MaxSize
  BY <1>2, Zenon DEF ObjectInv, NumberInv, h
<1>4. bOperations \in Nat /\ bOperations <= MaxOperations /\ MaxOperations \in Nat
      /\ MaxSize \in Nat /\ h.value \in Nat
  <2>1. bOperations \in 0 .. MaxOperations /\ h.value \in Nat
    BY <1>1, Zenon DEF ObjectInv, B!TypeOK, StoreDone
  <2>2. MaxOperations \in Nat /\ MaxSize \in Nat
    BY ObjectAssumption, Zenon DEF B!ButterflyAssumption
  <2>3. QED
    BY <2>1, <2>2
<1>5. bStructureID \in B!Structures /\ bButterfly \in {0} \cup B!Butterflies
      /\ bLastOffset \in [B!Structures -> 0 .. MaxSize]
  BY Zenon DEF ObjectInv, B!TypeOK
<1>6. bStructureID' \in B!Structures
  <2>1. CASE h.to = "setStructure"
    <3>1. bStructureID' = h.value
      BY <1>1, <2>1, Zenon DEF StoreDone
    <3>2. bStructureID \in Nat \ {0}
      BY <1>4, <1>5 DEF B!Structures
    <3>3. QED
      BY <1>3, <1>4, <2>1, <3>1, <3>2 DEF B!Structures
  <2>2. CASE h.to # "setStructure"
    BY <1>1, <1>5, <2>2, Zenon DEF StoreDone
  <2>3. QED
    BY <2>1, <2>2, Zenon
<1>7. bButterfly' \in {0} \cup B!Butterflies
  <2>1. CASE h.to = "setButterfly"
    <3>1. bButterfly' = h.value
      BY <1>1, <2>1, Zenon DEF StoreDone
    <3>2. QED
      BY <1>3, <1>4, <2>1, <3>1 DEF B!Butterflies
  <2>2. CASE h.to # "setButterfly"
    BY <1>1, <1>5, <2>2, Zenon DEF StoreDone
  <2>3. QED
    BY <2>1, <2>2, Zenon
<1>8. bLastOffset' \in [B!Structures -> 0 .. MaxSize]
  <2>1. CASE h.to = "setLastOffset"
    <3>1. bLastOffset' = [bLastOffset EXCEPT ![bStructureID] = h.value]
      BY <1>1, <2>1, Zenon DEF StoreDone
    <3>2. h.value \in 0 .. MaxSize
      BY <1>3, <1>4, <2>1
    <3>3. QED
      BY <1>5, <3>1, <3>2, Zenon
  <2>2. CASE h.to # "setLastOffset"
    BY <1>1, <1>5, <2>2, Zenon DEF StoreDone
  <2>3. QED
    BY <2>1, <2>2, Zenon
<1>9. bNuked' \in BOOLEAN /\ bBlack' \in BOOLEAN /\ bQueued' \in BOOLEAN
  <2>1. bNuked \in BOOLEAN /\ bBlack \in BOOLEAN /\ bQueued \in BOOLEAN
    BY Zenon DEF ObjectInv, B!TypeOK
  <2>2. bNuked' \in BOOLEAN
    BY <2>1, Zenon DEF B!store
  <2>3. bBlack' \in BOOLEAN /\ bQueued' \in BOOLEAN
    BY <2>1, Zenon DEF B!store
  <2>4. QED
    BY <2>2, <2>3, Zenon
<1>10. UNCHANGED <<bFlattens, bRaced, bKind, bProperties, bCapacity, bOperations, bVisit, bScanned>> /\ bValues' \in Nat
  BY <1>1, Zenon DEF StoreDone
<1>11. B!TypeOK'
  BY <1>1, <1>6, <1>7, <1>8, <1>9, <1>10, Zenon DEF ObjectInv, B!TypeOK, StoreRecord
<1>12. QED
  BY <1>5, <1>6, <1>8, <1>11, Zenon

LEMMA StoreOrder ==
    ASSUME ObjectInv, B!store
    PROVE  OrderInv'
<1> DEFINE h == bStores[1]
<1>1. Shifts(bStores, bStores') /\ StoreDone(h)
  BY StoreShifts, StoreEffect, Zenon
<1>2. OrderInv /\ 1 \in DOMAIN bStores
  BY <1>1, Zenon DEF ObjectInv, Shifts
<1>3. bStores' # <<>> => bStores'[Len(bStores')].to = "barrier"
  BY <1>1, <1>2 DEF Shifts, OrderInv
<1>4. \A i, j \in DOMAIN bStores' :
        i < j /\ bStores'[i].to \in Unnukes => bStores'[j].to \in {"putDirect", "barrier"}
  <2>1. \A i, j \in DOMAIN bStores' : i < j =>
          i + 1 \in DOMAIN bStores /\ j + 1 \in DOMAIN bStores /\ i + 1 < j + 1
          /\ bStores'[i] = bStores[i + 1] /\ bStores'[j] = bStores[j + 1]
    BY <1>1 DEF Shifts
  <2>2. QED
    BY <1>2, <2>1, Zenon DEF OrderInv
<1>5. \A i \in DOMAIN bStores' : bStores'[i].to = "nuke" =>
        \E j \in DOMAIN bStores' : i < j /\ bStores'[j].to \in Unnukes
  <2>1. TAKE i \in DOMAIN bStores'
  <2>2. HAVE bStores'[i].to = "nuke"
  <2>3. i \in Int /\ i >= 1 /\ i + 1 \in DOMAIN bStores /\ bStores[i + 1].to = "nuke"
    BY <1>1, <2>2, Zenon DEF Shifts
  <2>4. PICK j \in DOMAIN bStores : i + 1 < j /\ bStores[j].to \in Unnukes
    BY <1>2, <2>3, Zenon DEF OrderInv
  <2>5. j \in Int /\ j # 1
    BY <1>1, <2>3, <2>4 DEF Shifts
  <2>6. j - 1 \in DOMAIN bStores' /\ bStores'[j - 1] = bStores[j] /\ i < j - 1
    BY <1>1, <2>3, <2>4, <2>5 DEF Shifts
  <2>7. QED
    BY <2>4, <2>6, Zenon
<1>6. bNuked' => \E j \in DOMAIN bStores' : bStores'[j].to \in Unnukes
  <2>1. HAVE bNuked'
  <2>2. h.to \notin Unnukes
    BY <1>1, <2>1, Zenon DEF StoreDone
  <2>3. PICK j \in DOMAIN bStores : bStores[j].to \in Unnukes
    <3>1. CASE h.to = "nuke"
      BY <1>2, <3>1, Zenon DEF OrderInv
    <3>2. CASE h.to # "nuke"
      <4>1. bNuked
        BY <1>1, <2>1, <2>2, <3>2, Zenon DEF StoreDone
      <4>2. QED
        BY <1>2, <4>1, Zenon DEF OrderInv
    <3>3. QED
      BY <3>1, <3>2, Zenon
  <2>4. j # 1
    BY <2>2, <2>3, Zenon
  <2>5. j - 1 \in DOMAIN bStores' /\ bStores'[j - 1] = bStores[j]
    BY <1>1, <2>3, <2>4, Zenon DEF Shifts
  <2>6. QED
    BY <2>3, <2>5, Zenon
<1>7. \A i, j \in DOMAIN bStores' : bStores'[i].to = "setLastOffset" => bStores'[j].to # "setStructure"
  BY <1>1, <1>2 DEF Shifts, OrderInv
<1>8. QED
  BY <1>3, <1>4, <1>5, <1>6, <1>7, Zenon DEF OrderInv

LEMMA StoreNumbers ==
    ASSUME ObjectInv, B!store
    PROVE  NumberInv'
<1> DEFINE h == bStores[1]
<1>1. Shifts(bStores, bStores') /\ StoreDone(h)
  BY StoreShifts, StoreEffect, Zenon
<1>2. OrderInv /\ NumberInv /\ 1 \in DOMAIN bStores
  BY <1>1, Zenon DEF ObjectInv, Shifts
<1>3. UNCHANGED <<bOperations, bVisit, bScanned>>
  BY <1>1, Zenon DEF StoreDone
<1>4. /\ bStructureID \in Nat /\ bStructureID' \in Nat /\ bVisit.structureID \in Nat /\ bOperations \in Nat
      /\ h.value \in Nat
  <2>1. bStructureID \in B!Structures /\ bStructureID' \in B!Structures
    BY StoreTyped, Zenon
  <2>2. bVisit.structureID \in B!Structures /\ bOperations \in 0 .. MaxOperations
    BY Zenon DEF ObjectInv, B!TypeOK
  <2>3. MaxOperations \in Nat
    BY ObjectAssumption, Zenon DEF B!ButterflyAssumption
  <2>4. QED
    BY <1>1, <2>1, <2>2, <2>3 DEF B!Structures, StoreDone
<1>5. \/ bStructureID' = bStructureID /\ h.to # "setStructure"
      \/ bStructureID' = h.value /\ bStructureID < h.value /\ h.value <= bOperations + 1 /\ h.to = "setStructure"
  BY <1>1, <1>2, Zenon DEF StoreDone, NumberInv
<1>6. bStructureID' <= bOperations' + 1 /\ bVisit'.structureID <= bStructureID'
  BY <1>2, <1>3, <1>4, <1>5 DEF NumberInv
<1>7. bButterfly' <= bOperations' + 1 /\ bVisit'.butterfly <= bOperations' + 1
      /\ bScanned'.butterfly <= bOperations' + 1
  BY <1>1, <1>2, <1>3, Zenon DEF NumberInv, StoreDone
<1>8. \A i \in DOMAIN bStores' :
        /\ bStores'[i].to = "setButterfly" => bStores'[i].value <= bOperations' + 1
        /\ bStores'[i].to = "setLastOffset" => bStores'[i].value <= MaxSize
  BY <1>1, <1>2, <1>3 DEF NumberInv, Shifts
<1>9. \A i \in DOMAIN bStores' : bStores'[i].to = "setStructure" =>
        bStructureID' < bStores'[i].value /\ bStores'[i].value <= bOperations' + 1
  <2>1. TAKE i \in DOMAIN bStores'
  <2>2. HAVE bStores'[i].to = "setStructure"
  <2>3. i \in Int /\ 1 < i + 1 /\ i + 1 \in DOMAIN bStores /\ bStores'[i] = bStores[i + 1]
    BY <1>1 DEF Shifts
  <2>4. h.to \notin Unnukes
    BY <1>2, <2>2, <2>3, Zenon DEF OrderInv
  <2>5. bStructureID' = bStructureID
    BY <1>5, <2>4, Zenon DEF Unnukes
  <2>6. QED
    BY <1>2, <1>3, <2>2, <2>3, <2>5, Zenon DEF NumberInv
<1>10. QED
  BY <1>6, <1>7, <1>8, <1>9, Zenon DEF NumberInv

LEMMA StoreFits ==
    ASSUME ObjectInv, B!store
    PROVE  FitInv'
<1> DEFINE h == bStores[1]
<1>1. Shifts(bStores, bStores') /\ StoreDone(h) /\ OrderInv
  BY StoreShifts, StoreEffect, Zenon DEF ObjectInv
<1>2. PICK s \in B!Structures, b \in {0} \cup B!Butterflies, o \in 0 .. MaxSize :
        /\ Becomes(s, b, o) /\ (b = 0 <=> o = 0)
        /\ b # 0 => bCapacity[b] = B!outOfLineCapacity(o)
        /\ bProperties[s] <= o
  BY Zenon DEF ObjectInv, FitInv
<1>3. 1 \in DOMAIN bStores /\ \A i \in DOMAIN bStores : i \in Int /\ i >= 1
  BY <1>1, Zenon DEF Shifts
<1>4. \A k : (\A i \in DOMAIN bStores' : bStores'[i].to # k) /\ h.to # k =>
               \A i \in DOMAIN bStores : bStores[i].to # k
  BY <1>1, Zenon DEF Shifts
<1>5. \A i \in DOMAIN bStores' : bStores'[i].to = "setStructure" => bStores'[i].value = s
  BY <1>1, <1>2 DEF Shifts, Becomes
<1>6. (\A i \in DOMAIN bStores' : bStores'[i].to # "setStructure") => bStructureID' = s
  BY <1>1, <1>2, <1>3, <1>4, Zenon DEF StoreDone, Becomes
<1>7. \A i \in DOMAIN bStores' : bStores'[i].to = "setButterfly" => bStores'[i].value = b
  BY <1>1, <1>2 DEF Shifts, Becomes
<1>8. (\A i \in DOMAIN bStores' : bStores'[i].to # "setButterfly") => bButterfly' = b
  BY <1>1, <1>2, <1>3, <1>4, Zenon DEF StoreDone, Becomes
<1>9. ASSUME NEW i \in DOMAIN bStores', bStores'[i].to = "setLastOffset"
      PROVE  \/ bStores'[i].value = o
             \/ \E j \in DOMAIN bStores' : i < j /\ bStores'[j].to = "setLastOffset"
  <2>1. i \in Int /\ i >= 1 /\ i + 1 \in DOMAIN bStores /\ bStores'[i] = bStores[i + 1]
    BY <1>1, Zenon DEF Shifts
  <2>2. CASE bStores[i + 1].value = o
    BY <2>1, <2>2, Zenon
  <2>3. CASE bStores[i + 1].value # o
    <3>1. PICK j \in DOMAIN bStores : i + 1 < j /\ bStores[j].to = "setLastOffset"
      BY <1>2, <1>9, <2>1, <2>3, Zenon DEF Becomes
    <3>2. j \in Int /\ j # 1
      BY <1>3, <2>1, <3>1
    <3>3. j - 1 \in DOMAIN bStores' /\ bStores'[j - 1] = bStores[j] /\ i < j - 1
      BY <1>1, <2>1, <3>1, <3>2 DEF Shifts
    <3>4. QED
      BY <3>1, <3>3, Zenon
  <2>4. QED
    BY <2>2, <2>3, Zenon
<1>10. (\A i \in DOMAIN bStores' : bStores'[i].to # "setLastOffset") => bLastOffset'[s] = o
  <2>1. HAVE \A i \in DOMAIN bStores' : bStores'[i].to # "setLastOffset"
  <2>2. CASE h.to = "setLastOffset"
    <3>1. ~ \E j \in DOMAIN bStores : 1 < j /\ bStores[j].to = "setLastOffset"
      BY <1>1, <2>1 DEF Shifts
    <3>2. h.value = o
      BY <1>2, <1>3, <2>2, <3>1, Zenon DEF Becomes
    <3>3. bStructureID = s
      BY <1>1, <1>2, <1>3, <2>2, Zenon DEF OrderInv, Becomes
    <3>4. bLastOffset' = [bLastOffset EXCEPT ![s] = o]
      BY <1>1, <2>2, <3>2, <3>3, Zenon DEF StoreDone
    <3>5. QED
      BY <1>2, <3>4, StoreTyped, Zenon
  <2>3. CASE h.to # "setLastOffset"
    BY <1>1, <1>2, <1>4, <2>1, <2>3, Zenon DEF StoreDone, Becomes
  <2>4. QED
    BY <2>2, <2>3, Zenon
<1>11. Becomes(s, b, o)'
  BY <1>5, <1>6, <1>7, <1>8, <1>9, <1>10, Zenon DEF Becomes
<1>12. UNCHANGED <<bCapacity, bProperties>>
  BY <1>1, Zenon DEF StoreDone
<1>13. QED
  BY <1>2, <1>11, <1>12, Zenon DEF FitInv

LEMMA StoreColors ==
    ASSUME ObjectInv, B!store
    PROVE  ColorInv'
<1> DEFINE h == bStores[1]
<1>1. Shifts(bStores, bStores') /\ StoreDone(h) /\ OrderInv /\ ColorInv
  BY StoreShifts, StoreEffect, Zenon DEF ObjectInv
<1>2. UNCHANGED <<bVisit, bScanned, bRaced>>
  BY <1>1, Zenon DEF StoreDone
<1>3. h.to = "barrier" => bQueued'
  <2>1. bBlack \/ bQueued
    BY <1>1, Zenon DEF ColorInv
  <2>2. QED
    BY <1>1, <2>1, Zenon DEF StoreDone
<1>4. ~bBlack' => bQueued'
  BY <1>1, <1>3 DEF StoreDone, ColorInv
<1>5. bStores' = <<>> => bQueued'
  <2>1. bStores # <<>> /\ (bStores' = <<>> => Len(bStores) = 1)
    BY <1>1, Zenon DEF Shifts, B!store
  <2>2. QED
    BY <1>1, <1>3, <2>1, Zenon DEF OrderInv
<1>6. QED
  BY <1>1, <1>2, <1>4, <1>5, Zenon DEF ColorInv, B!ScannedOrPending

LEMMA StoreGrows ==
    ASSUME ObjectInv, B!store, ~bFlattens
    PROVE  GrowthInv'
<1> DEFINE h == bStores[1]
<1>1. Shifts(bStores, bStores') /\ StoreDone(h) /\ OrderInv /\ GrowthInv
  BY StoreShifts, StoreEffect, Zenon DEF ObjectInv
<1>2. 1 \in DOMAIN bStores /\ \A i \in DOMAIN bStores : i \in Int /\ i >= 1
  BY <1>1, Zenon DEF Shifts
<1>3. UNCHANGED bCapacity
  BY <1>1, Zenon DEF StoreDone
<1>4. \A i \in DOMAIN bStores' : i \in Int /\ 1 < i + 1 /\ i + 1 \in DOMAIN bStores /\ bStores'[i] = bStores[i + 1]
  BY <1>1 DEF Shifts
<1>5. ASSUME NEW i \in DOMAIN bStores', bStores'[i].to \in {"setButterfly", "setLastOffset"}, NukedAt(i + 1)
      PROVE  NukedAt(i)'
  <2>1. h.to \notin Unnukes
    BY <1>1, <1>2, <1>4, <1>5, Zenon DEF OrderInv
  <2>2. CASE bNuked \/ h.to = "nuke"
    BY <1>1, <2>1, <2>2 DEF StoreDone, NukedAt
  <2>3. CASE ~bNuked /\ h.to # "nuke"
    <3>1. PICK j \in DOMAIN bStores : j < i + 1 /\ bStores[j].to = "nuke"
      BY <1>5, <2>3, Zenon DEF NukedAt
    <3>2. j - 1 \in DOMAIN bStores' /\ bStores'[j - 1] = bStores[j] /\ j \in Int
      BY <1>1, <2>3, <3>1, Zenon DEF Shifts
    <3>3. j - 1 < i
      BY <1>4, <3>1, <3>2
    <3>4. QED
      BY <3>1, <3>2, <3>3, Zenon DEF NukedAt
  <2>4. QED
    BY <2>2, <2>3, Zenon
<1>6. ASSUME NEW i \in DOMAIN bStores', bStores'[i].to = "setButterfly"
      PROVE  /\ NukedAt(i)'
             /\ \E j \in DOMAIN bStores' : i < j /\
                   \/ bStores'[j].to = "setStructure"
                   \/ bStores'[j].to = "setLastOffset" /\ bStores'[j].value > bLastOffset'[bStructureID']
  <2>1. bStores[i + 1].to = "setButterfly" /\ i + 1 \in DOMAIN bStores
    BY <1>4, <1>6, Zenon
  <2>2. NukedAt(i + 1)
    BY <1>1, <2>1, Zenon DEF GrowthInv
  <2>3. PICK j \in DOMAIN bStores : i + 1 < j /\
                   \/ bStores[j].to = "setStructure"
                   \/ bStores[j].to = "setLastOffset" /\ bStores[j].value > bLastOffset[bStructureID]
    BY <1>1, <2>1, Zenon DEF GrowthInv
  <2>4. j \in Int /\ j # 1
    BY <1>2, <1>4, <2>3
  <2>5. j - 1 \in DOMAIN bStores' /\ bStores'[j - 1] = bStores[j] /\ i < j - 1
    BY <1>1, <1>4, <2>3, <2>4 DEF Shifts
  <2>6. h.to \notin Unnukes
    BY <1>1, <1>2, <1>4, <2>1, Zenon DEF OrderInv
  <2>7. bStores[j].to = "setLastOffset" => h.to # "setLastOffset"
    BY <1>1, <1>2, <2>3, <2>4, Zenon DEF GrowthInv
  <2>8. bStores[j].to = "setLastOffset" => bLastOffset'[bStructureID'] = bLastOffset[bStructureID]
    BY <1>1, <2>6, <2>7, Zenon DEF StoreDone, Unnukes
  <2>9. NukedAt(i)'
    BY <1>5, <1>6, <2>2, Zenon
  <2>10. QED
    BY <2>3, <2>5, <2>8, <2>9, Zenon
<1>7. ASSUME NEW i \in DOMAIN bStores', bStores'[i].to = "setLastOffset"
      PROVE  /\ bStores'[i].value >= bLastOffset'[bStructureID']
             /\ NukedAt(i)' \/ B!outOfLineCapacity(bStores'[i].value) = B!outOfLineCapacity(bLastOffset'[bStructureID'])
             /\ \A j \in DOMAIN bStores' : bStores'[j].to = "setLastOffset" => j = i
  <2>1. bStores[i + 1].to = "setLastOffset" /\ i + 1 \in DOMAIN bStores
        /\ bStores'[i] = bStores[i + 1] /\ i + 1 # 1
    BY <1>4, <1>7
  <2>2. h.to \notin Unnukes
    BY <1>1, <1>2, <1>4, <2>1, Zenon DEF OrderInv
  <2>3. \A j \in DOMAIN bStores : bStores[j].to = "setLastOffset" => j = i + 1
    BY <1>1, <2>1, Zenon DEF GrowthInv
  <2>4. h.to # "setLastOffset"
    BY <1>2, <2>1, <2>3, Zenon
  <2>5. bLastOffset'[bStructureID'] = bLastOffset[bStructureID]
    BY <1>1, <2>2, <2>4, Zenon DEF StoreDone, Unnukes
  <2>6. /\ bStores[i + 1].value >= bLastOffset[bStructureID]
        /\ NukedAt(i + 1) \/ B!outOfLineCapacity(bStores[i + 1].value) = B!outOfLineCapacity(bLastOffset[bStructureID])
    BY <1>1, <2>1, Zenon DEF GrowthInv
  <2>7. \A j \in DOMAIN bStores' : bStores'[j].to = "setLastOffset" => j = i
    BY <1>4, <2>3
  <2>8. NukedAt(i + 1) => NukedAt(i)'
    BY <1>5, <1>7, Zenon
  <2>9. QED
    BY <2>1, <2>5, <2>6, <2>7, <2>8, Zenon
<1>8. ASSUME ~bNuked', bButterfly' # 0
      PROVE  bCapacity'[bButterfly'] = B!outOfLineCapacity(bLastOffset'[bStructureID'])
  <2>1. CASE h.to \in Unnukes
    <3>1. \A i \in DOMAIN bStores' : bStores'[i].to \in {"putDirect", "barrier"}
      BY <1>1, <1>2, <1>4, <2>1, Zenon DEF OrderInv
    <3>2. PICK s \in B!Structures, b \in {0} \cup B!Butterflies, o \in 0 .. MaxSize :
            Becomes(s, b, o)' /\ (b # 0 => bCapacity'[b] = B!outOfLineCapacity(o))
      BY StoreFits, Zenon DEF FitInv
    <3>3. bStructureID' = s /\ bButterfly' = b /\ bLastOffset'[s] = o
      BY <3>1, <3>2, Zenon DEF Becomes
    <3>4. QED
      BY <1>8, <3>2, <3>3, Zenon
  <2>2. h.to # "nuke"
    BY <1>1, <1>8, Zenon DEF StoreDone
  <2>3. CASE h.to = "setLastOffset"
    <3>1. ~bNuked /\ bButterfly # 0 /\ bButterfly' = bButterfly /\ bStructureID' = bStructureID
      BY <1>1, <1>8, <2>3 DEF StoreDone, Unnukes
    <3>2. ~NukedAt(1)
      BY <1>2, <3>1 DEF NukedAt
    <3>3. B!outOfLineCapacity(h.value) = B!outOfLineCapacity(bLastOffset[bStructureID])
      BY <1>1, <1>2, <2>3, <3>2, Zenon DEF GrowthInv
    <3>4. bLastOffset'[bStructureID] = h.value
      BY <1>1, <2>3, StoreTyped, Zenon DEF StoreDone
    <3>5. QED
      BY <1>1, <1>3, <3>1, <3>3, <3>4, Zenon DEF GrowthInv
  <2>4. CASE h.to = "setButterfly"
    <3>1. NukedAt(1)
      BY <1>1, <1>2, <2>4, Zenon DEF GrowthInv
    <3>2. bNuked
      BY <1>2, <3>1 DEF NukedAt
    <3>3. QED
      BY <1>1, <1>8, <2>4, <3>2, Zenon DEF StoreDone, Unnukes
  <2>5. CASE h.to \notin Unnukes \cup {"setLastOffset", "setButterfly"}
    <3>1. UNCHANGED <<bNuked, bButterfly, bStructureID, bLastOffset>>
      BY <1>1, <2>2, <2>5, Zenon DEF StoreDone, Unnukes
    <3>2. QED
      BY <1>1, <1>3, <1>8, <3>1, Zenon DEF GrowthInv
  <2>6. QED
    BY <2>1, <2>3, <2>4, <2>5, Zenon
<1>9. QED
  BY <1>6, <1>7, <1>8, Zenon DEF GrowthInv

LEMMA StoreSnapshot ==
    ASSUME ObjectInv, B!store, ~bFlattens
    PROVE  SnapshotInv'
<1> DEFINE h == bStores[1]
        v == bVisit
<1>1. Shifts(bStores, bStores') /\ StoreDone(h) /\ OrderInv /\ NumberInv /\ GrowthInv /\ SnapshotInv
  BY StoreShifts, StoreEffect, Zenon DEF ObjectInv
<1>2. 1 \in DOMAIN bStores /\ \A i \in DOMAIN bStores : i \in Int /\ i >= 1
  BY <1>1, Zenon DEF Shifts
<1>3. UNCHANGED <<bCapacity, bVisit>>
  BY <1>1, Zenon DEF StoreDone
<1>4. /\ \A s \in B!Structures : bLastOffset[s] \in Int /\ bLastOffset'[s] \in Int /\ s \in Int
      /\ v.structureID \in B!Structures /\ v.lastOffset \in Int /\ h.value \in Int
      /\ bStructureID \in B!Structures
  <2>1. /\ bLastOffset \in [B!Structures -> 0 .. MaxSize] /\ bLastOffset' \in [B!Structures -> 0 .. MaxSize]
        /\ bStructureID \in B!Structures
    BY StoreTyped, Zenon
  <2>2. v.structureID \in B!Structures /\ v.lastOffset \in 0 .. MaxSize
    BY Zenon DEF ObjectInv, B!TypeOK
  <2>3. QED
    BY <1>1, <2>1, <2>2 DEF B!Structures, StoreDone
<1>5. \A s \in B!Structures :
        \/ bLastOffset'[s] = bLastOffset[s]
        \/ s = bStructureID /\ h.to = "setLastOffset" /\ bLastOffset'[s] = h.value /\ h.value >= bLastOffset[s]
  <2>1. CASE h.to = "setLastOffset"
    <3>1. bLastOffset' = [bLastOffset EXCEPT ![bStructureID] = h.value]
          /\ h.value >= bLastOffset[bStructureID]
      BY <1>1, <1>2, <2>1, Zenon DEF StoreDone, GrowthInv
    <3>2. QED
      BY <2>1, <3>1, StoreTyped, Zenon
  <2>2. CASE h.to # "setLastOffset"
    BY <1>1, <2>2, Zenon DEF StoreDone
  <2>3. QED
    BY <2>1, <2>2, Zenon
<1>6. v.at \in {"butterfly", "structureLate", "lastOffsetLate"} =>
        v.lastOffset <= bLastOffset[v.structureID] /\ v.lastOffset <= bLastOffset'[v.structureID]
  <2>1. HAVE v.at \in {"butterfly", "structureLate", "lastOffsetLate"}
  <2>2. v.lastOffset <= bLastOffset[v.structureID]
    BY <1>1, <2>1, Zenon DEF SnapshotInv
  <2>3. QED
    BY <1>4, <1>5, <2>2
<1>7. \A j \in DOMAIN bStores : j # 1 => j - 1 \in DOMAIN bStores' /\ bStores'[j - 1] = bStores[j] /\ j > 1
  BY <1>1, Zenon DEF Shifts
<1>8. ASSUME v.at = "structureLate", bStructureID' = v.structureID,
             bLastOffset'[bStructureID'] = v.lastOffset, bButterfly' # v.butterfly
      PROVE  /\ bNuked'
             /\ \E j \in DOMAIN bStores' :
                   \/ bStores'[j].to = "setStructure"
                   \/ bStores'[j].to = "setLastOffset" /\ bStores'[j].value > v.lastOffset
  <2>1. h.to # "setStructure" /\ bStructureID' = bStructureID
    <3>1. CASE h.to = "setStructure"
      <4>1. bStructureID' = h.value /\ bStructureID < h.value /\ v.structureID <= bStructureID
        BY <1>1, <1>2, <3>1, Zenon DEF StoreDone, NumberInv
      <4>2. QED
        BY <1>4, <1>8, <4>1
    <3>2. CASE h.to # "setStructure"
      BY <1>1, <3>2, Zenon DEF StoreDone
    <3>3. QED
      BY <3>1, <3>2, Zenon
  <2>2. bLastOffset[bStructureID] = v.lastOffset
    <3>1. v.lastOffset <= bLastOffset[bStructureID]
      BY <1>6, <1>8, <2>1, Zenon
    <3>2. QED
      BY <1>4, <1>5, <1>8, <2>1, <3>1
  <2>3. CASE h.to = "setButterfly"
    <3>1. NukedAt(1)
      BY <1>1, <1>2, <2>3, Zenon DEF GrowthInv
    <3>2. bNuked'
      BY <1>1, <1>2, <2>3, <3>1 DEF NukedAt, StoreDone, Unnukes
    <3>3. PICK j \in DOMAIN bStores : 1 < j /\
                   \/ bStores[j].to = "setStructure"
                   \/ bStores[j].to = "setLastOffset" /\ bStores[j].value > bLastOffset[bStructureID]
      BY <1>1, <1>2, <2>3, Zenon DEF GrowthInv
    <3>4. j # 1
      BY <3>3
    <3>5. QED
      BY <1>7, <2>2, <3>2, <3>3, <3>4, Zenon
  <2>4. CASE h.to # "setButterfly"
    <3>1. bButterfly # v.butterfly
      BY <1>1, <1>8, <2>4, Zenon DEF StoreDone
    <3>2. bNuked
      BY <1>1, <1>8, <2>1, <2>2, <3>1, Zenon DEF SnapshotInv
    <3>3. PICK j \in DOMAIN bStores :
            \/ bStores[j].to = "setStructure"
            \/ bStores[j].to = "setLastOffset" /\ bStores[j].value > v.lastOffset
      BY <1>1, <1>8, <2>1, <2>2, <3>1, Zenon DEF SnapshotInv
    <3>4. h.to # "setLastOffset"
      <4>1. SUFFICES ASSUME h.to = "setLastOffset" PROVE FALSE
        BY Zenon
      <4>2. bStores[j].to # "setStructure"
        BY <1>1, <1>2, <4>1, Zenon DEF OrderInv
      <4>3. j = 1
        BY <1>1, <1>2, <3>3, <4>1, <4>2, Zenon DEF GrowthInv
      <4>4. h.value = v.lastOffset
        BY <1>4, <1>5, <1>8, <2>1, <4>1, <1>1, StoreTyped, Zenon DEF StoreDone
      <4>5. QED
        BY <1>4, <3>3, <4>2, <4>3, <4>4
    <3>5. j # 1
      BY <2>1, <3>3, <3>4, Zenon
    <3>6. h.to \notin Unnukes
      <4>1. j > 1
        BY <1>7, <3>5, Zenon
      <4>2. QED
        BY <1>1, <1>2, <3>3, <4>1, Zenon DEF OrderInv
    <3>7. bNuked'
      BY <1>1, <3>2, <3>6, Zenon DEF StoreDone
    <3>8. QED
      BY <1>7, <3>3, <3>5, <3>7, Zenon
  <2>5. QED
    BY <2>3, <2>4, Zenon
<1>9. ASSUME v.at = "lastOffsetLate", bLastOffset'[v.structureID] = v.lastOffset
      PROVE  bCapacity[v.butterfly] = B!outOfLineCapacity(v.lastOffset)
  <2>1. v.lastOffset <= bLastOffset[v.structureID]
    BY <1>6, <1>9, Zenon
  <2>2. bLastOffset[v.structureID] = v.lastOffset
    BY <1>4, <1>5, <1>9, <2>1
  <2>3. QED
    BY <1>1, <1>9, <2>2, Zenon DEF SnapshotInv
<1>10. QED
  BY <1>3, <1>6, <1>8, <1>9, Zenon DEF SnapshotInv

LEMMA StoreInv ==
    ASSUME ObjectInv, B!store
    PROVE  ObjectInv'
<1>1. B!TypeOK' /\ OrderInv' /\ NumberInv' /\ FitInv' /\ ColorInv'
  BY StoreTyped, StoreOrder, StoreNumbers, StoreFits, StoreColors, Zenon
<1>2. UNCHANGED <<bFlattens, bCapacity, bScanned>>
  BY StoreEffect, Zenon DEF StoreDone
<1>3. ~bFlattens => GrowthInv' /\ SnapshotInv'
  BY StoreGrows, StoreSnapshot, Zenon
<1>4. ~bFlattens => B!NoTornScan'
  BY <1>2, Zenon DEF ObjectInv, B!NoTornScan
<1>5. QED
  BY <1>1, <1>2, <1>3, <1>4, Zenon DEF ObjectInv

-----------------------------------------------------------------------------
(* The visitor *)

VisitRecord ==
    [at: {"idle", "structure", "lastOffset", "butterfly", "structureLate", "lastOffsetLate"},
     structureID: B!Structures, lastOffset: 0 .. MaxSize, butterfly: {0} \cup B!Butterflies]
ScanRecord == [butterfly: {0} \cup B!Butterflies, lastOffset: 0 .. MaxSize, values: Nat]

\* The visitor writes nothing that the mutator reads.
Unwritten ==
    UNCHANGED <<bFlattens, bStructureID, bNuked, bButterfly, bLastOffset, bValues, bCapacity, bKind,
                bProperties, bStores, bOperations>>

LEMMA VisitTyped ==
    ASSUME ObjectInv
    PROVE  /\ bVisit \in VisitRecord /\ bScanned \in ScanRecord
           /\ bStructureID \in B!Structures /\ bButterfly \in {0} \cup B!Butterflies
           /\ \A s \in B!Structures : bLastOffset[s] \in 0 .. MaxSize
           /\ bValues \in Nat /\ bBlack \in BOOLEAN /\ bQueued \in BOOLEAN /\ bRaced \in BOOLEAN
           /\ B!Idle \in VisitRecord /\ 0 \in 0 .. MaxSize
           /\ bStructureID <= bOperations + 1 /\ bButterfly <= bOperations + 1 /\ 1 <= bStructureID
           /\ bVisit.structureID <= bStructureID /\ bVisit.butterfly <= bOperations + 1
           /\ bScanned.butterfly <= bOperations + 1 /\ 0 <= bOperations + 1
              /\ bStructureID <= bStructureID
<1>1. MaxOperations \in Nat /\ MaxSize \in Nat
  BY ObjectAssumption, Zenon DEF B!ButterflyAssumption
<1>2. /\ bVisit \in VisitRecord /\ bScanned \in ScanRecord
      /\ bStructureID \in B!Structures /\ bButterfly \in {0} \cup B!Butterflies
      /\ \A s \in B!Structures : bLastOffset[s] \in 0 .. MaxSize
      /\ bValues \in Nat /\ bBlack \in BOOLEAN /\ bQueued \in BOOLEAN /\ bRaced \in BOOLEAN
      /\ bOperations \in 0 .. MaxOperations
  BY Zenon DEF ObjectInv, B!TypeOK, VisitRecord, ScanRecord
<1>3. B!Idle \in VisitRecord /\ 0 \in 0 .. MaxSize
  BY <1>1 DEF B!Idle, VisitRecord, B!Structures
<1>4. /\ bStructureID <= bOperations + 1 /\ bButterfly <= bOperations + 1
      /\ bVisit.structureID <= bStructureID /\ bVisit.butterfly <= bOperations + 1
      /\ bScanned.butterfly <= bOperations + 1
  BY Zenon DEF ObjectInv, NumberInv
<1>5. 0 <= bOperations + 1 /\ 1 <= bStructureID /\ bStructureID <= bStructureID
  BY <1>1, <1>2 DEF B!Structures
<1>6. QED
  BY <1>2, <1>3, <1>4, <1>5, Zenon

LEMMA VisitKeeps ==
    ASSUME ObjectInv, Unwritten, bVisit' \in VisitRecord, bScanned' \in ScanRecord,
           bBlack' \in BOOLEAN, bQueued' \in BOOLEAN, bRaced' \in BOOLEAN,
           bVisit'.structureID <= bStructureID, bVisit'.butterfly <= bOperations + 1,
           bScanned'.butterfly <= bOperations + 1
    PROVE  B!TypeOK' /\ OrderInv' /\ NumberInv' /\ FitInv' /\ (~bFlattens => GrowthInv')
<1>1. /\ UNCHANGED <<bFlattens, bStructureID, bNuked, bButterfly, bLastOffset, bValues, bCapacity, bKind>>
      /\ UNCHANGED <<bProperties, bStores, bOperations>>
  BY Zenon DEF Unwritten
<1>2. B!TypeOK'
  BY <1>1, Zenon DEF ObjectInv, B!TypeOK, VisitRecord, ScanRecord
<1>3. OrderInv'
  BY <1>1, Zenon DEF ObjectInv, OrderInv
<1>4. NumberInv'
  BY <1>1, Zenon DEF ObjectInv, NumberInv
<1>5. FitInv'
  BY <1>1 DEF ObjectInv, FitInv, Becomes
<1>6. ~bFlattens => GrowthInv'
  BY <1>1, Zenon DEF ObjectInv, GrowthInv, NukedAt
<1>7. QED
  BY <1>2, <1>3, <1>4, <1>5, <1>6, Zenon

\* A visit is given up: it will be repeated.
LEMMA DidRaceInv ==
    ASSUME ObjectInv, Unwritten, UNCHANGED <<bBlack, bQueued>>, B!didRace
    PROVE  ObjectInv'
<1>1. bVisit' = B!Idle /\ bRaced' = TRUE /\ bScanned' = bScanned
  BY Zenon DEF B!didRace
<1>2. /\ bVisit' \in VisitRecord /\ bVisit'.structureID <= bStructureID /\ bVisit'.butterfly <= bOperations + 1
      /\ bVisit'.at = "idle"
  BY <1>1, VisitTyped, Zenon DEF B!Idle
<1>3. B!TypeOK' /\ OrderInv' /\ NumberInv' /\ FitInv' /\ (~bFlattens => GrowthInv')
  BY <1>1, <1>2, VisitTyped, VisitKeeps, Zenon
<1>4. ColorInv'
  BY <1>1, <1>2, Zenon DEF ObjectInv, ColorInv, B!ScannedOrPending
<1>5. SnapshotInv'
  BY <1>2, Zenon DEF SnapshotInv
<1>6. bFlattens' = bFlattens /\ bCapacity' = bCapacity
  BY Zenon DEF Unwritten
<1>7. ~bFlattens => B!NoTornScan'
  BY <1>1, <1>6, Zenon DEF ObjectInv, B!NoTornScan
<1>8. QED
  BY <1>3, <1>4, <1>5, <1>6, <1>7, Zenon DEF ObjectInv

\* A scan is accepted, of the storage the object has if no operation is under way.
LEMMA AcceptInv ==
    ASSUME ObjectInv, Unwritten, UNCHANGED <<bBlack, bQueued>>,
           NEW b \in {0} \cup B!Butterflies, NEW o \in 0 .. MaxSize, b <= bOperations + 1, B!Accept(b, o),
           bStores = <<>> /\ ~bQueued =>
               b = bButterfly /\ o = IF bButterfly = 0 THEN 0 ELSE bLastOffset[bStructureID],
           ~bFlattens /\ b # 0 => bCapacity[b] = B!outOfLineCapacity(o)
    PROVE  ObjectInv'
<1>1. /\ bVisit' = B!Idle /\ bRaced' = bRaced
      /\ bScanned' = [butterfly |-> b, lastOffset |-> o, values |-> bValues]
  BY Zenon DEF B!Accept
<1>2. /\ bVisit' \in VisitRecord /\ bVisit'.structureID <= bStructureID /\ bVisit'.butterfly <= bOperations + 1
      /\ bVisit'.at = "idle"
  BY <1>1, VisitTyped, Zenon DEF B!Idle
<1>3. bScanned' \in ScanRecord /\ bScanned'.butterfly <= bOperations + 1
      /\ bScanned'.butterfly = b /\ bScanned'.lastOffset = o
  BY <1>1, VisitTyped, Zenon DEF ScanRecord
<1>4. B!TypeOK' /\ OrderInv' /\ NumberInv' /\ FitInv' /\ (~bFlattens => GrowthInv')
  BY <1>1, <1>2, <1>3, VisitTyped, VisitKeeps, Zenon
<1>5. UNCHANGED <<bFlattens, bCapacity, bStores, bButterfly, bLastOffset, bStructureID, bValues>>
  BY Zenon DEF Unwritten
<1>6. ColorInv'
  <2>1. B!ScannedOrPending'
    BY <1>1, <1>5, Zenon DEF B!ScannedOrPending
  <2>2. QED
    BY <1>2, <2>1, Zenon DEF ObjectInv, ColorInv
<1>7. SnapshotInv'
  BY <1>2, Zenon DEF SnapshotInv
<1>8. ~bFlattens => B!NoTornScan'
  BY <1>3, <1>5, Zenon DEF B!NoTornScan
<1>9. QED
  BY <1>4, <1>5, <1>6, <1>7, <1>8, Zenon DEF ObjectInv

\* A read of the visit, that goes on.
LEMMA ReadKeeps ==
    ASSUME ObjectInv, Unwritten, UNCHANGED <<bBlack, bQueued, bRaced, bScanned>>, bVisit' \in VisitRecord,
           bVisit'.structureID <= bStructureID, bVisit'.butterfly <= bOperations + 1,
           bVisit'.at # "idle", ~bFlattens => SnapshotInv',
           bStores = <<>> /\ ~bQueued =>
             /\ bVisit'.at # "structure" => bVisit'.structureID = bStructureID
             /\ bVisit'.at \in {"butterfly", "structureLate", "lastOffsetLate"} =>
                   bVisit'.lastOffset = bLastOffset[bStructureID]
             /\ bVisit'.at \in {"structureLate", "lastOffsetLate"} => bVisit'.butterfly = bButterfly,
           bVisit'.at \in {"structureLate", "lastOffsetLate"} => bVisit'.butterfly # 0
    PROVE  ObjectInv'
<1>1. B!TypeOK' /\ OrderInv' /\ NumberInv' /\ FitInv' /\ (~bFlattens => GrowthInv')
  BY VisitTyped, VisitKeeps, Zenon
<1>2. UNCHANGED <<bFlattens, bCapacity, bStores, bButterfly, bLastOffset, bStructureID>>
  BY Zenon DEF Unwritten
<1>3. ColorInv'
  BY <1>2, Zenon DEF ObjectInv, ColorInv, B!ScannedOrPending
<1>4. ~bFlattens => B!NoTornScan'
  BY <1>2, Zenon DEF ObjectInv, B!NoTornScan
<1>5. QED
  BY <1>1, <1>2, <1>3, <1>4, Zenon DEF ObjectInv

LEMMA VisitingIs ==
    ASSUME NEW at, B!Visiting(at)
    PROVE  bVisit.at = at /\ Unwritten /\ UNCHANGED <<bBlack, bQueued>>
BY Zenon DEF B!Visiting, Unwritten, B!object, B!structures

LEMMA VisitChildrenInv ==
    ASSUME ObjectInv, B!visitChildren
    PROVE  ObjectInv'
<1>1. bVisit' = [bVisit EXCEPT !.at = "structure"] /\ bBlack' = TRUE /\ bScanned' = bScanned /\ Unwritten
  BY Zenon DEF B!visitChildren, Unwritten, B!object, B!structures
<1>2. bRaced' \in BOOLEAN /\ bQueued' \in BOOLEAN
  BY VisitTyped, Zenon DEF B!visitChildren
<1>3. /\ bVisit' \in VisitRecord /\ bVisit'.structureID = bVisit.structureID /\ bVisit'.butterfly = bVisit.butterfly
      /\ bVisit'.at = "structure"
  BY <1>1, VisitTyped, Zenon DEF VisitRecord
<1>4. B!TypeOK' /\ OrderInv' /\ NumberInv' /\ FitInv' /\ (~bFlattens => GrowthInv')
  BY <1>1, <1>2, <1>3, VisitTyped, VisitKeeps, Zenon
<1>5. ColorInv'
  BY <1>1, <1>3, Zenon DEF ColorInv, B!ScannedOrPending
<1>6. SnapshotInv'
  BY <1>3, Zenon DEF SnapshotInv
<1>7. bFlattens' = bFlattens /\ bCapacity' = bCapacity
  BY <1>1, Zenon DEF Unwritten
<1>8. ~bFlattens => B!NoTornScan'
  BY <1>1, <1>7, Zenon DEF ObjectInv, B!NoTornScan
<1>9. QED
  BY <1>4, <1>5, <1>6, <1>7, <1>8, Zenon DEF ObjectInv

LEMMA ReadStructureEarlyInv ==
    ASSUME ObjectInv, B!readStructureEarly
    PROVE  ObjectInv'
<1>1. Unwritten /\ UNCHANGED <<bBlack, bQueued>>
  BY VisitingIs, Zenon DEF B!readStructureEarly
<1>2. CASE bNuked
  BY <1>1, <1>2, DidRaceInv, Zenon DEF B!readStructureEarly
<1>3. CASE ~bNuked
  <2>1. /\ bVisit' = [[bVisit EXCEPT !.structureID = bStructureID] EXCEPT !.at = "lastOffset"]
        /\ UNCHANGED <<bRaced, bScanned>>
    BY <1>3, Zenon DEF B!readStructureEarly, B!Read
  <2>2. /\ bVisit' \in VisitRecord /\ bVisit'.structureID = bStructureID /\ bVisit'.butterfly = bVisit.butterfly
        /\ bVisit'.at = "lastOffset"
    BY <2>1, VisitTyped, Zenon DEF VisitRecord
  <2>3. SnapshotInv'
    BY <2>2, Zenon DEF SnapshotInv
  <2>4. QED
    BY <1>1, <2>1, <2>2, <2>3, VisitTyped, ReadKeeps, Zenon
<1>4. QED
  BY <1>2, <1>3, Zenon

LEMMA ReadLastOffsetEarlyInv ==
    ASSUME ObjectInv, B!readLastOffsetEarly
    PROVE  ObjectInv'
<1>1. Unwritten /\ UNCHANGED <<bBlack, bQueued>> /\ bVisit.at = "lastOffset"
  BY VisitingIs, Zenon DEF B!readLastOffsetEarly
<1>2. /\ bVisit' = [[bVisit EXCEPT !.lastOffset = bLastOffset[bVisit.structureID]] EXCEPT !.at = "butterfly"]
      /\ UNCHANGED <<bRaced, bScanned>>
  BY Zenon DEF B!readLastOffsetEarly, B!Read
<1>3. bVisit \in VisitRecord /\ bLastOffset[bVisit.structureID] \in 0 .. MaxSize
  BY VisitTyped, Zenon DEF VisitRecord
<1>4. /\ bVisit' \in VisitRecord /\ bVisit'.structureID = bVisit.structureID /\ bVisit'.butterfly = bVisit.butterfly
      /\ bVisit'.at = "butterfly" /\ bVisit'.lastOffset = bLastOffset[bVisit.structureID]
  BY <1>2, <1>3, Zenon DEF VisitRecord
<1>5. bLastOffset' = bLastOffset
  BY <1>1, Zenon DEF Unwritten
<1>6. SnapshotInv'
  BY <1>3, <1>4, <1>5 DEF SnapshotInv
<1>7. bStores = <<>> /\ ~bQueued => bVisit.structureID = bStructureID
  BY <1>1, Zenon DEF ObjectInv, ColorInv
<1>8. QED
  BY <1>1, <1>2, <1>4, <1>6, <1>7, VisitTyped, ReadKeeps, Zenon

LEMMA ReadButterflyInv ==
    ASSUME ObjectInv, B!readButterfly
    PROVE  ObjectInv'
<1>1. Unwritten /\ UNCHANGED <<bBlack, bQueued>> /\ bVisit.at = "butterfly"
  BY VisitingIs, Zenon DEF B!readButterfly
<1>2. CASE bButterfly = 0
  <2>1. B!Accept(0, 0)
    BY <1>2, Zenon DEF B!readButterfly
  <2>2. 0 \in {0} \cup B!Butterflies
    BY Zenon
  <2>3. QED
    BY <1>1, <1>2, <2>1, <2>2, VisitTyped, AcceptInv, Zenon
<1>3. CASE bButterfly # 0
  <2>1. /\ bVisit' = [[bVisit EXCEPT !.butterfly = bButterfly] EXCEPT !.at = "structureLate"]
        /\ UNCHANGED <<bRaced, bScanned>>
    BY <1>3, Zenon DEF B!readButterfly, B!Read
  <2>2. /\ bVisit' \in VisitRecord /\ bVisit'.structureID = bVisit.structureID /\ bVisit'.butterfly = bButterfly
        /\ bVisit'.at = "structureLate" /\ bVisit'.lastOffset = bVisit.lastOffset
    BY <2>1, VisitTyped, Zenon DEF VisitRecord
  <2>3. bLastOffset' = bLastOffset /\ bButterfly' = bButterfly
    BY <1>1, Zenon DEF Unwritten
  <2>4. ~bFlattens => SnapshotInv'
    BY <1>1, <2>2, <2>3, Zenon DEF ObjectInv, SnapshotInv
  <2>5. bStores = <<>> /\ ~bQueued => bVisit.structureID = bStructureID /\ bVisit.lastOffset = bLastOffset[bStructureID]
    BY <1>1, Zenon DEF ObjectInv, ColorInv
  <2>6. QED
    BY <1>1, <1>3, <2>1, <2>2, <2>4, <2>5, VisitTyped, ReadKeeps, Zenon
<1>4. QED
  BY <1>2, <1>3, Zenon

\* The structure is the one read first and not nuked: the butterfly read in between is
\* the one that structure's last offset is the size of.
LEMMA ReadStructureLateInv ==
    ASSUME ObjectInv, B!readStructureLate
    PROVE  ObjectInv'
<1>1. Unwritten /\ UNCHANGED <<bBlack, bQueued>> /\ bVisit.at = "structureLate"
  BY VisitingIs, Zenon DEF B!readStructureLate
<1>2. CASE bNuked \/ bStructureID # bVisit.structureID
  BY <1>1, <1>2, DidRaceInv, Zenon DEF B!readStructureLate
<1>3. CASE ~bNuked /\ bStructureID = bVisit.structureID
  <2>1. bVisit' = [bVisit EXCEPT !.at = "lastOffsetLate"] /\ UNCHANGED <<bRaced, bScanned>>
    BY <1>3, Zenon DEF B!readStructureLate, B!Read
  <2>2. /\ bVisit' \in VisitRecord /\ bVisit'.structureID = bVisit.structureID /\ bVisit'.butterfly = bVisit.butterfly
        /\ bVisit'.at = "lastOffsetLate" /\ bVisit'.lastOffset = bVisit.lastOffset
    BY <2>1, VisitTyped, Zenon DEF VisitRecord
  <2>3. bVisit.butterfly # 0
    BY <1>1, Zenon DEF ObjectInv, ColorInv
  <2>4. ~bFlattens /\ bLastOffset[bStructureID] = bVisit.lastOffset =>
          bCapacity[bVisit.butterfly] = B!outOfLineCapacity(bVisit.lastOffset)
    <3>1. HAVE ~bFlattens /\ bLastOffset[bStructureID] = bVisit.lastOffset
    <3>2. bButterfly = bVisit.butterfly
      BY <1>1, <1>3, <3>1, Zenon DEF ObjectInv, SnapshotInv
    <3>3. QED
      BY <1>3, <2>3, <3>1, <3>2, Zenon DEF ObjectInv, GrowthInv
  <2>5. bLastOffset' = bLastOffset /\ bCapacity' = bCapacity
    BY <1>1, Zenon DEF Unwritten
  <2>6. ~bFlattens => SnapshotInv'
    BY <1>1, <1>3, <2>2, <2>4, <2>5, Zenon DEF ObjectInv, SnapshotInv
  <2>7. bStores = <<>> /\ ~bQueued =>
          bVisit.lastOffset = bLastOffset[bStructureID] /\ bVisit.butterfly = bButterfly
    BY <1>1, Zenon DEF ObjectInv, ColorInv
  <2>8. QED
    BY <1>1, <1>3, <2>1, <2>2, <2>3, <2>6, <2>7, VisitTyped, ReadKeeps, Zenon
<1>4. QED
  BY <1>2, <1>3, Zenon

LEMMA ReadLastOffsetLateInv ==
    ASSUME ObjectInv, B!readLastOffsetLate
    PROVE  ObjectInv'
<1>1. Unwritten /\ UNCHANGED <<bBlack, bQueued>> /\ bVisit.at = "lastOffsetLate"
  BY VisitingIs, Zenon DEF B!readLastOffsetLate
<1>2. CASE bLastOffset[bVisit.structureID] # bVisit.lastOffset
  BY <1>1, <1>2, DidRaceInv, Zenon DEF B!readLastOffsetLate
<1>3. CASE bLastOffset[bVisit.structureID] = bVisit.lastOffset
  <2>1. B!Accept(bVisit.butterfly, bVisit.lastOffset)
    BY <1>3, Zenon DEF B!readLastOffsetLate
  <2>2. bVisit.butterfly \in {0} \cup B!Butterflies /\ bVisit.lastOffset \in 0 .. MaxSize
    BY VisitTyped, Zenon DEF VisitRecord
  <2>3. ~bFlattens => bCapacity[bVisit.butterfly] = B!outOfLineCapacity(bVisit.lastOffset)
    BY <1>1, <1>3, Zenon DEF ObjectInv, SnapshotInv
  <2>4. bStores = <<>> /\ ~bQueued =>
          bVisit.lastOffset = bLastOffset[bStructureID] /\ bVisit.butterfly = bButterfly /\ bButterfly # 0
    BY <1>1, Zenon DEF ObjectInv, ColorInv
  <2>5. QED
    BY <1>1, <2>1, <2>2, <2>3, <2>4, VisitTyped, AcceptInv, Zenon
<1>4. QED
  BY <1>2, <1>3, Zenon

LEMMA VisitStoppedInv ==
    ASSUME ObjectInv, B!visitStopped
    PROVE  ObjectInv'
<1>1. Unwritten /\ UNCHANGED <<bBlack, bQueued>> /\ bStores = <<>>
  BY VisitingIs, Zenon DEF B!visitStopped
<1>2. PICK o : o = IF bButterfly = 0 THEN 0 ELSE bLastOffset[bStructureID]
  BY Zenon
<1>3. B!Accept(bButterfly, o)
  BY <1>2, Zenon DEF B!visitStopped
<1>4. o \in 0 .. MaxSize /\ bButterfly \in {0} \cup B!Butterflies /\ bButterfly <= bOperations + 1
  BY <1>2, VisitTyped, Zenon
<1>5. bButterfly # 0 => bCapacity[bButterfly] = B!outOfLineCapacity(o)
  BY <1>1, <1>2, Quiet, Zenon
<1>6. QED
  BY <1>1, <1>2, <1>3, <1>4, <1>5, AcceptInv, Zenon

-----------------------------------------------------------------------------
(* The theorems *)

LEMMA ObjectInit == B!Init => ObjectInv
<1>1. SUFFICES ASSUME B!Init PROVE ObjectInv
  BY Zenon
<1>2. PICK size \in InitialSizes :
        /\ bFlattens \in BOOLEAN /\ bStructureID = 1 /\ bNuked = FALSE
        /\ bButterfly = IF size = 0 THEN 0 ELSE 1
        /\ bLastOffset = [s \in B!Structures |-> size]
        /\ bProperties = [s \in B!Structures |-> size]
        /\ bKind = [s \in B!Structures |-> "None"]
        /\ bValues = 0
        /\ bCapacity = [b \in B!Butterflies |-> B!outOfLineCapacity(size)]
        /\ bStores = << >> /\ bOperations = 0
        /\ bBlack = FALSE /\ bQueued = TRUE /\ bRaced = FALSE
        /\ bVisit = B!Idle /\ bScanned = B!Nothing
  BY <1>1, Zenon DEF B!Init
<1>3. /\ MaxOperations \in Nat /\ MaxSize \in Nat /\ size \in 0 .. MaxSize
      /\ \A n \in 0 .. MaxSize : B!outOfLineCapacity(n) \in Nat
  BY ObjectAssumption, Capacities, Zenon DEF B!ButterflyAssumption
<1>4. 1 \in B!Structures /\ 1 \in B!Butterflies
  BY <1>3 DEF B!Structures, B!Butterflies
<1>5. B!TypeOK
  <2>1. bKind \in [B!Structures -> B!Kinds] /\ bCapacity \in [B!Butterflies -> Nat]
    BY <1>2, <1>3, Zenon DEF B!Kinds
  <2>2. bLastOffset \in [B!Structures -> 0 .. MaxSize] /\ bProperties \in [B!Structures -> 0 .. MaxSize]
    BY <1>2, <1>3, Zenon
  <2>3. bVisit \in VisitRecord /\ bScanned \in ScanRecord
    BY <1>2, <1>3, <1>4 DEF B!Idle, B!Nothing, VisitRecord, ScanRecord
  <2>4. bStores \in Seq([to: B!Stores, value: Nat]) /\ bOperations \in 0 .. MaxOperations
        /\ bValues \in Nat
    BY <1>2, <1>3
  <2>5. bStructureID \in B!Structures /\ bButterfly \in {0} \cup B!Butterflies
    BY <1>2, <1>4, Zenon
  <2>6. bNuked \in BOOLEAN /\ bBlack \in BOOLEAN /\ bQueued \in BOOLEAN /\ bRaced \in BOOLEAN
    BY <1>2, Zenon
  <2>7. QED
    BY <1>2, <2>1, <2>2, <2>3, <2>4, <2>5, <2>6, Zenon DEF B!TypeOK, VisitRecord, ScanRecord
<1>6. DOMAIN bStores = {}
  BY <1>2
<1>7. OrderInv
  BY <1>2, <1>6, Zenon DEF OrderInv
<1>8. NumberInv
  BY <1>2, <1>6 DEF NumberInv, B!Idle, B!Nothing
<1>9. FitInv
  <2>1. Becomes(1, bButterfly, size)
    BY <1>2, <1>4, <1>6, Zenon DEF Becomes
  <2>2. (bButterfly = 0 <=> size = 0) /\ (bButterfly # 0 => bCapacity[bButterfly] = B!outOfLineCapacity(size))
    BY <1>2, <1>4
  <2>3. bProperties[1] <= size
    BY <1>2, <1>3, <1>4
  <2>4. bButterfly \in {0} \cup B!Butterflies
    BY <1>2, <1>4, Zenon
  <2>5. QED
    BY <1>3, <1>4, <2>1, <2>2, <2>3, <2>4, Zenon DEF FitInv
<1>10. ColorInv
  BY <1>2, Zenon DEF ColorInv, B!ScannedOrPending, B!Idle
<1>11. GrowthInv
  BY <1>2, <1>4, <1>6, Zenon DEF GrowthInv
<1>12. SnapshotInv
  BY <1>2, Zenon DEF SnapshotInv, B!Idle
<1>13. B!NoTornScan
  BY <1>2, Zenon DEF B!NoTornScan, B!Nothing
<1>14. QED
  BY <1>5, <1>7, <1>8, <1>9, <1>10, <1>11, <1>12, <1>13, Zenon DEF ObjectInv

LEMMA ObjectStep == ObjectInv /\ [B!Next]_(B!vars) => ObjectInv'
<1>1. SUFFICES ASSUME ObjectInv, [B!Next]_(B!vars) PROVE ObjectInv'
  BY Zenon
<1>2. CASE B!operate
  BY <1>1, <1>2, OperateInv, Zenon
<1>3. CASE B!store
  BY <1>1, <1>3, StoreInv, Zenon
<1>4. CASE B!visitChildren
  BY <1>1, <1>4, VisitChildrenInv, Zenon
<1>5. CASE B!visitButterfly
  BY <1>1, <1>5, ReadStructureEarlyInv, ReadLastOffsetEarlyInv, ReadButterflyInv,
     ReadStructureLateInv,
     ReadLastOffsetLateInv, VisitStoppedInv, Zenon DEF B!visitButterfly
<1>6. CASE UNCHANGED B!vars
  <2>1. /\ Unwritten /\ UNCHANGED <<bBlack, bQueued, bRaced, bVisit, bScanned>>
    BY <1>6, Zenon DEF B!vars, B!object, B!structures, B!colors, Unwritten
  <2>2. B!TypeOK' /\ OrderInv' /\ NumberInv' /\ FitInv' /\ (~bFlattens => GrowthInv')
    BY <1>1, <2>1, VisitTyped, VisitKeeps, Zenon
  <2>3. UNCHANGED <<bFlattens, bStructureID, bNuked, bButterfly, bLastOffset, bValues, bCapacity, bStores>>
    BY <2>1, Zenon DEF Unwritten
  <2>4. ColorInv'
    BY <1>1, <2>1, <2>3, Zenon DEF ObjectInv, ColorInv, B!ScannedOrPending
  <2>5. ~bFlattens => SnapshotInv' /\ B!NoTornScan'
    BY <1>1, <2>1, <2>3, Zenon DEF ObjectInv, SnapshotInv, B!NoTornScan
  <2>6. QED
    BY <2>2, <2>3, <2>4, <2>5, Zenon DEF ObjectInv
<1>7. QED
  BY <1>1, <1>2, <1>3, <1>4, <1>5, <1>6, Zenon DEF B!Next

(* The invariant the scan of an object that changes rests on: JSObject's stores in the *)
(* order of nukeStructureAndSetButterfly, and JSObject::visitButterfly's double collect. *)
THEOREM ObjectInvariant == B!Spec => []ObjectInv
BY ObjectInit, ObjectStep, PTL DEF B!Spec

(* JSObject::visitButterflyImpl never scans a butterfly with another one's size, unless *)
(* a dictionary is flattened under it; the storage always fits the structure between two *)
(* operations; and what was written since the last scan is due for another visit. *)
THEOREM ObjectScanned == B!Spec => []ObjectIsScanned
<1>1. ObjectInv => ObjectIsScanned
  <2>1. SUFFICES ASSUME ObjectInv PROVE ObjectIsScanned
    BY Zenon
  <2>2. B!TypeOK /\ B!ScannedOrPending /\ (~bFlattens => B!NoTornScan)
    BY <2>1, Zenon DEF ObjectInv, ColorInv
  <2>3. B!StorageFits
    BY <2>1, Quiet, Zenon DEF B!StorageFits
  <2>4. QED
    BY <2>2, <2>3, Zenon DEF ObjectIsScanned
<1>2. QED
  BY <1>1, ObjectInvariant, PTL

=============================================================================
