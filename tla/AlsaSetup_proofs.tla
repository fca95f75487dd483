-------------------------- MODULE AlsaSetup_proofs --------------------------
(***************************************************************************)
(* Proofs about AlsaSetup, for any file types, any numbers of channels and *)
(* any size of the buffer.                                                 *)
(***************************************************************************)
EXTENDS AlsaSetup, TLAPS

TypeOK ==
    /\ file \in SoundFiles
    /\ stage \in {"new", "read", "initialized", "failed"}

\* From the first stage on the service has the sample of the table, and from the
\* second one on ALSA has it, too.
TablesAgree ==
    /\ stage \in {"read", "initialized"} =>
          /\ Supported
          /\ sample = Sample(SampleOf[file.minor].type, SampleOf[file.minor].bytes,
                             LittleOf[file.major])
          /\ bytes_per_frame_ = file.channels * SampleOf[file.minor].bytes
    /\ stage = "initialized" => format = sample

IInv == TypeOK /\ TablesAgree

LEMMA Invariance == Spec => []IInv
<1>1. Init => IInv
    BY DEF Init, IInv, TypeOK, TablesAgree
<1>2. IInv /\ [Next]_vars => IInv'
    <2> SUFFICES ASSUME IInv, [Next]_vars PROVE IInv'
        OBVIOUS
    <2> USE DEF IInv, TypeOK, TablesAgree, Supported
    <2>1. CASE InitSndFile
        BY <2>1 DEF InitSndFile
    <2>2. CASE InitSndFileThrows \/ InitAlsaThrows
        BY <2>2 DEF InitSndFileThrows, InitAlsaThrows, Throws
    <2>3. CASE InitAlsa
        BY <2>3 DEF InitAlsa, AlsaFormat
    <2>4. CASE UNCHANGED vars
        BY <2>4 DEF vars
    <2> QED BY <2>1, <2>2, <2>3, <2>4 DEF Next
<1> QED BY <1>1, <1>2, PTL DEF Spec

\* What the tables hold.
LEMMA Table ==
    ASSUME NEW minor \in DOMAIN SampleOf
    PROVE  LET s == SampleOf[minor] IN
           /\ s.type = IF minor \in {"FLOAT", "DOUBLE"} THEN "float" ELSE "signed"
           /\ s.bytes \in IF s.type = "float" THEN {4, 8} ELSE 1..4
           /\ s.bytes = 3 <=> minor = "PCM_24"
           /\ s.bytes = 1 <=> minor = "PCM_S8"
BY DEF SampleOf

LEMMA OrderTable ==
    ASSUME NEW major \in DOMAIN LittleOf
    PROVE  LittleOf[major] = (major = "WAV")
<1>1. major \in {"WAV", "AIFF"}
    BY DEF LittleOf
<1>2. LittleOf["WAV"] = TRUE /\ LittleOf["AIFF"] = FALSE /\ "AIFF" # "WAV"
    BY DEF LittleOf
<1> QED BY <1>1, <1>2, Zenon

\* Whatever libsndfile may say of a file: for what InitSndFile accepts,
\* GetFormatForAlsa has a format.
THEOREM AcceptedAlwaysHasFormat == Spec => []AcceptedHasFormat
<1>1. IInv => AcceptedHasFormat
    <2> SUFFICES ASSUME IInv, stage = "read"
                 PROVE  KnownToAlsa(sample.type, sample.bytes)
        BY DEF AcceptedHasFormat
    <2>1. /\ file.minor \in DOMAIN SampleOf
          /\ sample.type = SampleOf[file.minor].type
          /\ sample.bytes = SampleOf[file.minor].bytes
        BY DEF IInv, TablesAgree, Supported, Sample
    <2> QED BY <2>1, Table DEF KnownToAlsa
<1> QED BY <1>1, Invariance, PTL

\* Of all files that are played, those packed in 24 bits are taken by ALSA to be wider,
\* those in the other byte order than their container's have their bytes swapped, and
\* these are the only ones with a sample of another kind, width or order.
THEOREM OthersKeepTheirMeaning == Spec => []MisreadFilesAreKnown
<1>1. IInv => MisreadFilesAreKnown
    <2> SUFFICES ASSUME IInv, stage = "initialized"
                 PROVE  /\ SameKind
                        /\ SameWidth <=> file.minor # "PCM_24"
                        /\ SameOrder <=> \/ file.minor = "PCM_S8"
                                         \/ file.little = (file.major = "WAV")
        BY DEF MisreadFilesAreKnown
    <2> DEFINE s == SampleOf[file.minor]
    <2>1. /\ file.minor \in DOMAIN SampleOf /\ file.major \in DOMAIN LittleOf
          /\ bytes_per_frame_ = file.channels * s.bytes
          /\ format = Sample(s.type, s.bytes, LittleOf[file.major])
        BY DEF IInv, TablesAgree, Supported
    <2>2. format.type = s.type /\ format.bytes = s.bytes
          /\ format.little = LittleOf[file.major]
        BY <2>1 DEF Sample
    <2>3. SameKind
        BY <2>1, <2>2, Table DEF SameKind
    <2>4. SameWidth <=> file.minor # "PCM_24"
        <3>1. file.channels \in Nat \ {0}
            BY ChannelsAssumption DEF IInv, TypeOK, SoundFiles
        <3>2. s.bytes \in {1, 2, 3, 4, 8} /\ (s.bytes = 3 <=> file.minor = "PCM_24")
            BY <2>1, Table
        <3> HIDE DEF s
        <3>3. CASE s.bytes = 3
            BY <2>1, <2>2, <3>1, <3>2, <3>3 DEF SameWidth, PhysicalBytes
        <3>4. CASE s.bytes # 3
            BY <2>1, <2>2, <3>1, <3>2, <3>4 DEF SameWidth, PhysicalBytes
        <3> QED BY <3>3, <3>4
    <2>5. SameOrder <=> file.minor = "PCM_S8" \/ file.little = (file.major = "WAV")
        <3>1. format.bytes = 1 <=> file.minor = "PCM_S8"
            BY <2>1, <2>2, Table
        <3>2. format.little = (file.major = "WAV")
            BY <2>1, <2>2, OrderTable, Zenon
        <3>3. file.little \in BOOLEAN
            BY DEF IInv, TypeOK, SoundFiles
        <3> QED BY <3>1, <3>2, <3>3, Zenon DEF SameOrder
    <2> QED BY <2>3, <2>4, <2>5
<1> QED BY <1>1, Invariance, PTL

=============================================================================
