------------------------ MODULE ConfigService_proofs ------------------------
(***************************************************************************)
(* Proofs about ConfigService, for any options and values, and for files   *)
(* of any length.                                                          *)
(***************************************************************************)
EXTENDS ConfigService, SequenceTheorems, TLAPS

-----------------------------------------------------------------------------
(* The inductive invariant.                                                 *)

\* i is the last of the first n lines that names the option.
IsLastLine(o, i, n) ==
    /\ i \in 1..n /\ file[i].param = o
    /\ \A j \in 1..n : file[j].param = o => j <= i

\* While the file is read, an option has the value of the last line so far that
\* names it, or its default.
MergedSoFar(o) ==
    \/ config[o] = Default /\ \A i \in 1..read : file[i].param # o
    \/ \E i \in 1..read : IsLastLine(o, i, read) /\ config[o] = file[i].value

TypeInv ==
    /\ file \in Seq(Lines)
    /\ read \in 0..Len(file)
    /\ config \in [Options -> Values \cup {NotAPort, Absent, Default}]
    /\ cmd_line \in [Options -> Values \cup {Absent}]

IInv ==
    /\ TypeInv
    /\ result = "pending" => /\ \A i \in 1..read : ~IsError(file[i])
                             /\ \A o \in Options : MergedSoFar(o)
    /\ Precedence /\ AddressIsNotMixed

-----------------------------------------------------------------------------

LEMMA LineType ==
    ASSUME NEW line \in Lines
    PROVE  /\ line.param \in Options \cup {Unknown}
           /\ line.value \in Values \cup {NotAPort, Absent}
BY DEF Lines, Line

\* The value that FromFile chooses is the one of the last line.
LEMMA LastLineCounts ==
    ASSUME NEW o, Len(file) \in Nat
    PROVE  /\ (\A i \in 1..Len(file) : file[i].param # o) => FromFile(o) = Default
           /\ \A i \in 1..Len(file) :
                 IsLastLine(o, i, Len(file)) => FromFile(o) = file[i].value
<1>1. ASSUME NEW i \in 1..Len(file), IsLastLine(o, i, Len(file))
      PROVE  FromFile(o) = file[i].value
    <2>1. i \in LinesOf(o) /\ \A j \in LinesOf(o) : j <= i
        BY <1>1 DEF LinesOf, IsLastLine
    <2>2. \A k \in LinesOf(o) : (\A j \in LinesOf(o) : j <= k) => k = i
        BY <2>1 DEF LinesOf
    <2>3. (CHOOSE k \in LinesOf(o) : \A j \in LinesOf(o) : j <= k) = i
        BY <2>1, <2>2
    <2> QED BY <2>1, <2>3 DEF FromFile
<1> QED BY <1>1 DEF FromFile, LinesOf

LEMMA InitEstablishes == Init => IInv
<1> SUFFICES ASSUME Init PROVE IInv
    OBVIOUS
<1>1. file \in Seq(Lines) /\ Len(file) \in Nat
    <2>1. PICK n \in 0..MaxLines : file \in [1..n -> Lines]
        BY DEF Init
    <2>2. n \in Nat
        BY MaxLinesAssumption
    <2> QED BY <2>1, <2>2, SeqDef, LenProperties
<1>2. TypeInv
    BY <1>1 DEF Init, TypeInv
<1> QED BY <1>2 DEF Init, IInv, MergedSoFar, Precedence, AddressIsNotMixed

LEMMA LoadLineKeeps == ASSUME IInv, LoadLine PROVE IInv'
<1> DEFINE line == file[read + 1]
<1>1. /\ result = "pending" /\ read' = read + 1 /\ read + 1 \in 1..Len(file)
      /\ UNCHANGED <<cmd_line, file>> /\ read \in Nat /\ Len(file) \in Nat
    BY DEF LoadLine, IInv, TypeInv
<1>2. line \in Lines
    BY <1>1 DEF IInv, TypeInv
<1>3. CASE IsError(line) /\ result' = "failed" /\ UNCHANGED config
    BY <1>1, <1>3 DEF IInv, TypeInv, Precedence, AddressIsNotMixed
<1>4. CASE ~IsError(line) /\ SetParamFromFile(line) /\ UNCHANGED result
    <2>1. /\ line.param \in Options /\ line.value \in Values \cup {NotAPort, Absent}
          /\ config' = [config EXCEPT ![line.param] = line.value]
        BY <1>2, <1>4, LineType DEF IsError, SetParamFromFile
    <2>2. TypeInv'
        BY <1>1, <2>1 DEF IInv, TypeInv
    <2>3. ASSUME NEW o \in Options PROVE MergedSoFar(o)'
        <3>1. CASE line.param = o
            <4>1. config'[o] = line.value
                BY <2>1, <3>1 DEF IInv, TypeInv
            <4>2. /\ read + 1 \in 1..read' /\ file'[read + 1].param = o
                  /\ \A j \in 1..read' : file'[j].param = o => j <= read + 1
                BY <1>1, <3>1
            <4> QED BY <1>1, <4>1, <4>2 DEF MergedSoFar, IsLastLine
        <3>2. CASE line.param # o
            <4>1. config'[o] = config[o] /\ MergedSoFar(o)
                BY <1>1, <2>1, <3>2 DEF IInv, TypeInv
            <4>2. \A i \in 1..read' : i \in 1..read \/ i = read + 1
                BY <1>1
            <4>3. CASE config[o] = Default /\ \A i \in 1..read : file[i].param # o
                BY <1>1, <3>2, <4>1, <4>2, <4>3 DEF MergedSoFar
            <4>4. CASE \E i \in 1..read : IsLastLine(o, i, read) /\ config[o] = file[i].value
                <5>1. PICK i \in 1..read : IsLastLine(o, i, read) /\ config[o] = file[i].value
                    BY <4>4
                <5>2. /\ i \in 1..read' /\ file'[i].param = o
                      /\ \A j \in 1..read' : file'[j].param = o => j <= i
                    BY <1>1, <3>2, <4>2, <5>1 DEF IsLastLine
                <5> QED BY <1>1, <4>1, <5>1, <5>2 DEF MergedSoFar, IsLastLine
            <4> QED BY <4>1, <4>3, <4>4 DEF MergedSoFar
        <3> QED BY <3>1, <3>2
    <2>4. \A i \in 1..read' : ~IsError(file'[i])
        <3>1. \A i \in 1..read' : i \in 1..read \/ i = read + 1
            BY <1>1
        <3> QED BY <1>1, <1>4, <3>1 DEF IInv
    <2>5. result' # "ok"
        BY <1>1, <1>4
    <2> QED BY <2>2, <2>3, <2>4, <2>5
            DEF IInv, Precedence, AddressIsNotMixed, IsError
<1> QED BY <1>3, <1>4 DEF LoadLine

\* The whole file has been read, and was understood.
LEMMA FromCommandLineKeeps == ASSUME IInv, FromCommandLine PROVE IInv'
<1>1. /\ result = "pending" /\ result' = "ok" /\ read = Len(file)
      /\ UNCHANGED <<cmd_line, file, read>> /\ Len(file) \in Nat
      /\ config' = [o \in Options |-> IF ~Overrides(o) THEN config[o]
                                      ELSE IF Given(o) THEN cmd_line[o] ELSE Default]
    BY DEF FromCommandLine, IInv, TypeInv
<1>2. TypeInv'
    BY <1>1 DEF IInv, TypeInv
<1>3. ASSUME NEW o \in Options PROVE config[o] = FromFile(o)
    BY <1>1, LastLineCounts DEF IInv, MergedSoFar
<1>4. UNCHANGED <<Given("mqtt_host"), FromFile("mqtt_port")>>
      /\ \A o \in Options : UNCHANGED <<Given(o), FromFile(o)>>
    BY <1>1 DEF Given, FromFile, LinesOf
<1>5. Precedence'
    <2>1. \A i \in 1..Len(file') : ~IsError(file'[i])
        BY <1>1 DEF IInv
    <2>2. ASSUME NEW o \in Options \ {"mqtt_port"}
          PROVE  config'[o] = IF Given(o)' THEN cmd_line'[o] ELSE FromFile(o)'
        <3>1. Overrides(o) <=> Given(o)
            BY DEF Overrides
        <3> QED BY <1>1, <1>3, <1>4, <3>1
    <2> QED BY <2>1, <2>2 DEF Precedence, IsError
<1>6. AddressIsNotMixed'
    <2>1. "mqtt_port" \in Options
        BY OptionsAssumption DEF Options
    <2>2. Overrides("mqtt_port") <=> Given("mqtt_host")
        BY DEF Overrides
    <2>3. CASE Given("mqtt_host")
        <3>1. config'["mqtt_port"] \in {cmd_line["mqtt_port"], Default}
            BY <1>1, <2>1, <2>2, <2>3
        <3> QED BY <1>1, <1>4, <2>3, <3>1 DEF AddressIsNotMixed
    <2>4. CASE ~Given("mqtt_host")
        <3>1. config'["mqtt_port"] = FromFile("mqtt_port")
            BY <1>1, <1>3, <2>1, <2>2, <2>4
        <3> QED BY <1>1, <1>4, <2>4, <3>1 DEF AddressIsNotMixed
    <2> QED BY <2>3, <2>4
<1> QED BY <1>1, <1>2, <1>5, <1>6 DEF IInv

LEMMA StepPreserves == IInv /\ [Next]_vars => IInv'
<1> SUFFICES ASSUME IInv, [Next]_vars PROVE IInv'
    OBVIOUS
<1>1. CASE UNCHANGED vars
    <2>1. UNCHANGED <<cmd_line, file, read, config, result>>
        BY <1>1 DEF vars
    <2>2. \A o : UNCHANGED <<Given(o), FromFile(o), MergedSoFar(o)>>
        BY <2>1 DEF Given, FromFile, LinesOf, MergedSoFar, IsLastLine
    <2> QED BY <2>1, <2>2 DEF IInv, TypeInv, Precedence, AddressIsNotMixed, IsError
<1> QED BY <1>1, LoadLineKeeps, FromCommandLineKeeps DEF Next

LEMMA Invariance == Spec => []IInv
BY InitEstablishes, StepPreserves, PTL DEF Spec

\* Command line before file before default, and the last line before the others,
\* for a file of any length.
THEOREM CommandLineComesFirst == Spec => []Precedence
<1>1. IInv => Precedence
    BY DEF IInv
<1> QED BY <1>1, Invariance, PTL

\* A host from the command line comes with the port of the command line or the default
\* one, never with that of the file; any other host never with that of the command line.
THEOREM HostAndPortBelongTogether == Spec => []AddressIsNotMixed
<1>1. IInv => AddressIsNotMixed
    BY DEF IInv
<1> QED BY <1>1, Invariance, PTL

=============================================================================
