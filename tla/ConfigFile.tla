-------------------------------- MODULE ConfigFile --------------------------------
(***************************************************************************)
(* Manager::ReadConfig line by line, and what main makes of VLC's user     *)
(* name and password.                                                      *)
(*                                                                         *)
(* A line is its key, the letters the program looks at, and what follows   *)
(* the key.  The file is any sequence of lines, and its last line may lack *)
(* the newline: getline then leaves it in place when it fails, and it is   *)
(* handled once more.                                                      *)
(***************************************************************************)
EXTENDS Integers, Sequences, FiniteSets, FiniteSetsExt, Base64

CONSTANTS
    MAX_CONFIGS,  \* the size of the table; configuration 0 is reserved
    Lines,        \* the lines a file may have
    MaxLines,     \* bound: the lines of a file
    Width16,      \* 2^16, the range of a uint16_t
    Width32       \* 2^32, the range of a uint32_t

ConfigKeys == {"N", "H", "S", "B", "K", "P", "F", "R"}
TextKeys == {"N", "I", "G", "VU", "VP"}
NumberKeys == {"H", "S", "B", "K", "P", "F", "R", "C", "L"}

ASSUME ConfigFileAssumption ==
    /\ MAX_CONFIGS \in Nat \ {0} /\ MaxLines \in Nat
    /\ Width16 \in Nat \ {0} /\ Width32 \in Nat \ {0}
    /\ Lines \subseteq [key : TextKeys \cup NumberKeys \cup {"#"},
                        short : BOOLEAN,     \* it ends before the text would begin
                        text : Seq(Byte),    \* what StripNewline and stoi get
                        junk : BOOLEAN,      \* stoi does not accept the text
                        number : Int]        \* or makes this number of it

VARIABLES
    lines,            \* what has been read of the file
    again,            \* its last line has been handled twice
    phase,            \* what the program does
    config,           \* the local config: an index of configs, 0 if undefined
    configs,          \* Manager::configs[1 .. num_configs - 1]
    num_configs,      \* Manager::num_configs
    activeConfigNum,  \* Manager::activeConfigNum
    settings,         \* vlcIP, controlGroup, vlcUname and vlcPass
    lightsStartOn,    \* Manager::lightsStartOn
    authorization     \* the encoded user name and password

vars == <<lines, again, phase, config, configs, num_configs, activeConfigNum, settings,
          lightsStartOn, authorization>>

------------------------------------------------------------------------------
\* The numbers of a configuration, by the letters of their lines, and the
\* range of each.
Numbers == {"H", "S", "B", "K", "P", "F", "R"}
Width(key) == IF key \in {"F", "R"} THEN Width32 ELSE Width16
Config == [name : Seq(Byte), numbers : [Numbers -> Nat]]

NewConfigCopied(name) ==                                       \* mutant
    [name |-> name,
     numbers |-> IF configs = <<>> THEN [key \in Numbers |-> 0]
                 ELSE configs[Len(configs)].numbers]
NewConfig(name) == [name |-> name, numbers |-> [key \in Numbers |-> 0]]

CR == 13
NL == 10
StripNewline(text) ==
    IF text # <<>> /\ text[Len(text)] \in {CR, NL} THEN SubSeq(text, 1, Len(text) - 1)
    ELSE text

Init ==
    /\ lines = <<>>
    /\ again = FALSE
    /\ phase = "reading"
    /\ config = 0
    /\ configs = <<>>
    /\ num_configs = 1
    /\ activeConfigNum = 0
    /\ settings = [key \in {"I", "G", "VU", "VP"} |-> <<>>]
    /\ lightsStartOn = 0
    /\ authorization = <<>>

------------------------------------------------------------------------------
\* The lines of the configurations count while the table is not full.
HandledAlways(line) == TRUE                                    \* mutant
HandledNames(line) == line.key = "N" => num_configs < MAX_CONFIGS   \* mutant
Handled(line) == line.key \in ConfigKeys => num_configs < MAX_CONFIGS

\* substr throws if the line ends before the text begins, stoi if the text
\* is no number; nothing catches.
ThrowsRefused(line) ==                                         \* mutant
    line.key # "#" /\ (line.short \/ (line.key \in NumberKeys /\ line.junk))
Throws(line) ==
    /\ Handled(line)
    /\ line.key # "#"
    /\ line.short \/ (line.key \in NumberKeys /\ line.junk)

\* A number that belongs to no configuration is written through a pointer
\* that has no value yet.
WritesAnywhere(line) == Handled(line) /\ line.key \in Numbers /\ config = 0

NameLine(line) ==
    /\ line.key = "N"
    /\ configs' = Append(configs, NewConfig(StripNewline(line.text)))
    /\ config' = num_configs
    /\ num_configs' = num_configs + 1
    /\ UNCHANGED <<activeConfigNum, settings, lightsStartOn>>

NumberLine(line) ==
    /\ line.key \in Numbers
    /\ configs' = [configs EXCEPT ![config].numbers[line.key] = line.number % Width(line.key)]
    /\ UNCHANGED <<config, num_configs, activeConfigNum, settings, lightsStartOn>>

SettingLine(line) ==
    /\ line.key \in {"I", "G", "VU", "VP"}
    /\ settings' = [settings EXCEPT ![line.key] = StripNewline(line.text)]
    /\ UNCHANGED <<config, configs, num_configs, activeConfigNum, lightsStartOn>>

ActiveLine(line) ==
    /\ line.key = "C"
    /\ activeConfigNum' = line.number
    /\ UNCHANGED <<config, configs, num_configs, settings, lightsStartOn>>

StartLine(line) ==
    /\ line.key = "L"
    /\ lightsStartOn' = line.number
    /\ UNCHANGED <<config, configs, num_configs, activeConfigNum, settings>>

IgnoredLine(line) ==
    /\ line.key = "#" \/ ~Handled(line)
    /\ UNCHANGED <<config, configs, num_configs, activeConfigNum, settings, lightsStartOn>>

\* The program goes on after a line, or ends there.
Handle(line, next) ==
    \/ /\ Throws(line)
       /\ phase' = "terminated"
       /\ UNCHANGED <<config, configs, num_configs, activeConfigNum, settings, lightsStartOn>>
    \/ /\ ~Throws(line) /\ WritesAnywhere(line)
       /\ phase' = "undefined"
       /\ UNCHANGED <<config, configs, num_configs, activeConfigNum, settings, lightsStartOn>>
    \/ /\ ~Throws(line) /\ ~WritesAnywhere(line)
       /\ phase' = next
       /\ \/ Handled(line) /\ NameLine(line)
          \/ Handled(line) /\ NumberLine(line)
          \/ SettingLine(line)
          \/ ActiveLine(line)
          \/ StartLine(line)
          \/ IgnoredLine(line)

\* getline reads a line.
ReadLine(line) ==
    /\ phase = "reading" /\ Len(lines) < MaxLines
    /\ lines' = Append(lines, line)
    /\ Handle(line, "reading")
    /\ UNCHANGED <<again, authorization>>

\* getline fails at the end of a file without a last newline, and leaves the
\* line as it was.
LastLineAgain ==
    /\ phase = "reading" /\ lines # <<>>
    /\ again' = TRUE
    /\ Handle(lines[Len(lines)], "read")
    /\ UNCHANGED <<lines, authorization>>

\* getline fails behind the last newline, and makes the line empty.
EndOfFile ==
    /\ phase = "reading"
    /\ phase' = "read"
    /\ UNCHANGED <<lines, again, config, configs, num_configs, activeConfigNum, settings,
                   lightsStartOn, authorization>>

\* The configuration main goes on with: a number that is too large is none, a
\* negative one passes.
Overridden == IF activeConfigNum >= num_configs THEN 0 ELSE activeConfigNum

\* The rest of ReadConfig, and the login that main makes of the file.  What
\* main does in between looks at the table of groups (module Discovery) and
\* switches lights on (LightControl).
Finish ==
    /\ phase = "read"
    /\ phase' = "done"
    /\ activeConfigNum' = Overridden
    /\ authorization' = Encode(settings["VU"] \o <<58>> \o settings["VP"])
    /\ UNCHANGED <<lines, again, config, configs, num_configs, settings, lightsStartOn>>

Next ==
    \/ \E line \in Lines : ReadLine(line)
    \/ LastLineAgain
    \/ EndOfFile
    \/ Finish

Spec == Init /\ [][Next]_vars

------------------------------------------------------------------------------
(* Properties                                                              *)

\* Every variable has its type: the table has one place for each
\* configuration but the reserved one, and numbers fit their fields.
TypeOK ==
    /\ lines \in Seq(Lines)
    /\ again \in BOOLEAN
    /\ phase \in {"reading", "read", "done", "terminated", "undefined"}
    /\ num_configs \in 1..MAX_CONFIGS
    /\ config \in 0..(num_configs - 1)
    /\ configs \in Seq(Config) /\ Len(configs) = num_configs - 1
    /\ \A c \in DOMAIN configs, key \in Numbers :
          configs[c].numbers[key] \in 0..(Width(key) - 1)
    /\ activeConfigNum \in Int
    /\ settings \in [{"I", "G", "VU", "VP"} -> Seq(Byte)]
    /\ lightsStartOn \in Int
    /\ WellFormed(authorization)

\* The lines in the order they have been handled.
Written == IF again THEN Append(lines, lines[Len(lines)]) ELSE lines

\* The number of N lines among the first i lines of w, and the lines with this
\* key that follow the c-th N line and precede the next.
NamesIn(w, i) == Cardinality({j \in 1..i : w[j].key = "N"})
Own(w, c, key) == {i \in DOMAIN w : w[i].key = key /\ NamesIn(w, i) = c}

\* The c-th configuration has the number of the last of its own lines w with
\* this key, reduced to the width of the field, and zero if there is none.
Agrees(w, c, key) ==
    /\ Own(w, c, key) = {} => configs[c].numbers[key] = 0
    /\ \A i \in Own(w, c, key) :
          (\A j \in Own(w, c, key) : j <= i) =>
              configs[c].numbers[key] = w[i].number % Width(key)

\* Every configuration has the numbers that its own lines give it and none of
\* a neighbour's, however the lines are mixed with names, lines of the program
\* and a last line that counts twice.  The configuration that fills the table
\* is not as written, see LastIsDark.
AsWritten ==
    phase \in {"reading", "read", "done"} =>
        \A c \in 1..(num_configs - 1) \ {MAX_CONFIGS - 1}, key \in Numbers :
            Agrees(Written, c, key)

\* The configuration that fills the table keeps its name alone: all its lines
\* come when the table is full, and it can be chosen, with power and
\* brightness zero.
LastIsDark ==
    num_configs = MAX_CONFIGS /\ MAX_CONFIGS > 1 =>
        \A key \in Numbers : configs[MAX_CONFIGS - 1].numbers[key] = 0

\* ReadConfig gets through the file whenever each line that is handled can be
\* read and the numbers come after a name; whether a line is handled depends on
\* all the names before it.
ReadIfReadable ==
    phase \in {"terminated", "undefined"} =>
        \E i \in DOMAIN Written :
            \/ Written[i].key \in Numbers /\ NamesIn(Written, i) = 0
            \/ /\ Written[i].key \in ConfigKeys => NamesIn(Written, i - 1) < MAX_CONFIGS - 1
               /\ Written[i].short \/ (Written[i].key \in NumberKeys /\ Written[i].junk)

\* What VLC decodes is the user name, a colon and the password: each the text
\* of the last line of its key, whether the table was full by then or not,
\* without the line end that a file written on Windows leaves in it, and with
\* every other byte that the file has there.
LastText(w, key) ==
    LET has == {i \in DOMAIN w : w[i].key = key}
    IN  IF has = {} THEN <<>> ELSE w[Max(has)].text
Login(text) ==
    SubSeq(text, 1, Len(text) - (IF text = <<>> THEN 0
                                 ELSE IF text[Len(text)] \in {CR, NL} THEN 1 ELSE 0))
VlcDecodesLogin ==
    phase = "done" =>
        Decode(authorization) =
            Login(LastText(Written, "VU")) \o <<58>> \o Login(LastText(Written, "VP"))
==============================================================================
