--------------------------- MODULE ConfigService ---------------------------
(***************************************************************************)
(* The configuration of the player: defaults, overridden line by line by   *)
(* the configuration file, then by the options of the command line.  Any   *)
(* error ends the process before anything else is started.                 *)
(***************************************************************************)
EXTENDS Naturals, Sequences

CONSTANTS Texts, Ports,   \* the options that hold a text, and a port number
          Values,         \* values that are good for every option
          NotAPort,       \* a value that is no 16 bit number
          Default,        \* stands for the default of each option
          Absent,         \* no option of that name; no value on that line
          Unknown,        \* a name that is no option
          MaxLines        \* bound: lines of the configuration file

ASSUME OptionsAssumption == "mqtt_host" \in Texts /\ "mqtt_port" \in Ports
ASSUME ValuesAssumption ==
    NotAPort \notin Values /\ Default \notin Values /\ Absent \notin Values
ASSUME MaxLinesAssumption == MaxLines \in Nat

Options == Texts \cup Ports

Line(param, value) == [param |-> param, value |-> value]

\* The lines that are not empty and no comment.  A line may lack its value.
Lines == {Line(p, v) : p \in Options \cup {Unknown},
                       v \in Values \cup {NotAPort, Absent}}

VARIABLES cmd_line,   \* the options that cxxopts has parsed
          file,       \* the lines of the configuration file
          read,       \* how many of them have been read
          config,     \* the members of the service
          result      \* of InitFromCmdArguments, once it has returned

vars == <<cmd_line, file, read, config, result>>

\* A file that is not given, or that cannot be opened, has no lines.
Init ==
    /\ cmd_line \in [Options -> Values \cup {Absent}]
    /\ file \in UNION {[1..n -> Lines] : n \in 0..MaxLines}
    /\ read = 0
    /\ config = [o \in Options |-> Default]
    /\ result = "pending"

Given(o) == cmd_line[o] # Absent

\* boost::lexical_cast throws, SetParamFromFile does not know the option, or the
\* line has no value.
IsError(line) ==
    \/ line.value = Absent
    \/ line.param \notin Options
    \/ line.param \in Ports /\ line.value = NotAPort

\* Faulty variant: the first line of an option counts.
SetParamOnce(line) ==
    config' = [config EXCEPT ![line.param] = IF @ = Default THEN line.value ELSE @]

SetParamFromFile(line) == config' = [config EXCEPT ![line.param] = line.value]

LoadLine ==
    /\ result = "pending" /\ read < Len(file)
    /\ read' = read + 1
    /\ LET line == file[read + 1] IN
           \/ IsError(line) /\ result' = "failed" /\ UNCHANGED config
           \/ ~IsError(line) /\ SetParamFromFile(line) /\ UNCHANGED result
    /\ UNCHANGED <<cmd_line, file>>

\* Faulty variant: the port is an option as any other.
OverridesAlone(o) == Given(o)

\* The port of the broker is taken together with its host, given or not.
Overrides(o) == IF o = "mqtt_port" THEN Given("mqtt_host") ELSE Given(o)

FromCommandLine ==
    /\ result = "pending" /\ read = Len(file)
    /\ config' = [o \in Options |-> IF ~Overrides(o) THEN config[o]
                                    ELSE IF Given(o) THEN cmd_line[o] ELSE Default]
    /\ result' = "ok"
    /\ UNCHANGED <<cmd_line, file, read>>

Next == LoadLine \/ FromCommandLine

Spec == Init /\ [][Next]_vars

-----------------------------------------------------------------------------
(* Properties.                                                              *)

LinesOf(o) == {i \in 1..Len(file) : file[i].param = o}

FromFile(o) ==
    IF LinesOf(o) = {} THEN Default
    ELSE file[CHOOSE i \in LinesOf(o) : \A j \in LinesOf(o) : j <= i].value

\* The player runs only on a file all of which was understood, and then every
\* option but the port of the broker is the one of the command line, or else of the
\* last line of the file that names it, or else the default.
Precedence ==
    result = "ok" =>
        /\ \A i \in 1..Len(file) : ~IsError(file[i])
        /\ \A o \in Options \ {"mqtt_port"} :
              config[o] = IF Given(o) THEN cmd_line[o] ELSE FromFile(o)

\* The player never talks to the broker of the command line at the port that the
\* file has for another broker, nor the other way round; a port that is given nowhere
\* is the default.  (So a port on the command line without the host counts for nothing.)
AddressIsNotMixed ==
    result = "ok" =>
        config["mqtt_port"] \in
            IF Given("mqtt_host") THEN {cmd_line["mqtt_port"], Default}
                                  ELSE {FromFile("mqtt_port")}

=============================================================================
