------------------------------ MODULE Settings ------------------------------
(***************************************************************************)
(* cew_settings.c: the settings of the process, read from an ini file pair *)
(* by pair.  A name or value of the file is an element of Names or Texts;  *)
(* Lower is tolower, Prefix tells which known name is a prefix of which    *)
(* name, Strtol is strtol.  Strings of the heap are numbered and never     *)
(* reused, so that a dangling pointer shows.                               *)
(***************************************************************************)
EXTENDS Integers, Sequences, FiniteSetsExt

CONSTANTS
  Names, Texts,
  Sections, Keys,  \* the names in the files
  Lower,       \* [Names -> Names]
  Prefix,      \* pairs of a known name and a name it is a prefix of
  Strtol,      \* [Texts -> Int]
  MaxPairs,    \* bound: pairs read
  MaxStrings   \* bound: strings allocated

(* sKnownOptions: the section of each key.                                 *)
sKnownOptions == [workers |-> "general", clients |-> "general",
                  port |-> "general", logfile |-> "logging",
                  level |-> "logging"]

Options == DOMAIN sKnownOptions
Known == Options \union {"general", "logging"}

ASSUME SettingsAssumption ==
  /\ Sections \union Keys \subseteq Names
  /\ Lower \in [Names -> Names] /\ Strtol \in [Texts -> Int]
  /\ Prefix \subseteq Known \X Names
  /\ \A p, q \in Prefix : p[2] = q[2] => p[1] = q[1]
  /\ MaxPairs \in Nat /\ MaxStrings \in Nat

NULL == 0

VARIABLES
  pc,              \* "idle", "section" or "pair" inside settings_load
  sCurrSSettings,
  Section,         \* the section being read: its name and its string
  heap,            \* the strings that are allocated
  text,            \* the value each string duplicates
  sCopy,           \* what the caller got from settings_get
  base, seen,      \* history: the settings (logfile as text) when they were
                   \* last set or destroyed, and the pairs read since
  abandoned        \* history: section strings left by a failed load

vars == <<pc, sCurrSSettings, Section, heap, text, sCopy, base, seen, abandoned>>

Zero == [o \in Options |-> 0]
NoSection == [name |-> "", string |-> NULL]

Init ==
  /\ pc = "idle"
  /\ sCurrSSettings = Zero /\ sCopy = Zero
  /\ Section = NoSection
  /\ heap = {} /\ text = <<>>
  /\ base = [Zero EXCEPT !.logfile = <<>>] /\ seen = <<>> /\ abandoned = {}

(* sdsnew: the next string.                                                *)
NewString == Len(text) + 1

-----------------------------------------------------------------------------
(***************************************************************************)
(* settings_load.  A missing file (SET_NOFILE) changes nothing.            *)
(***************************************************************************)
settings_load ==
  /\ pc = "idle"
  /\ pc' = "section"
  /\ UNCHANGED <<sCurrSSettings, Section, heap, text, sCopy, base, seen,
                 abandoned>>

ini_next_section ==
  /\ pc = "section"
  /\ NewString <= MaxStrings
  /\ \E name \in Sections : Section' = [name |-> name, string |-> NewString]
  /\ text' = Append(text, "")
  /\ heap' = heap \union {NewString}
  /\ pc' = "pair"
  /\ UNCHANGED <<sCurrSSettings, sCopy, base, seen, abandoned>>

(* No more pairs: the section's string is freed.                           *)
section_ends ==
  /\ pc = "pair"
  /\ heap' = heap \ {Section.string}
  /\ Section' = NoSection
  /\ pc' = "section"
  /\ UNCHANGED <<sCurrSSettings, text, sCopy, base, seen, abandoned>>

(* Mutant: the next load starts in the section an error left.              *)
load_ends_kept ==
  /\ pc # "idle"
  /\ pc' = "idle"
  /\ UNCHANGED <<sCurrSSettings, Section, heap, text, sCopy, base, seen,
                 abandoned>>

(* End of the file, or an error of the parser (SET_EXIT_FAILURE): what was *)
(* read stays, and the string of an open section is not freed.             *)
load_ends ==
  /\ pc # "idle"
  /\ pc' = "idle"
  /\ abandoned' = abandoned \union ({Section.string} \ {NULL})
  /\ Section' = NoSection
  /\ UNCHANGED <<sCurrSSettings, heap, text, sCopy, base, seen>>

(* The options a pair is taken for: strncmp over the length of the known   *)
(* name only.                                                              *)
Matches(section, key) ==
  {o \in Options : /\ <<sKnownOptions[o], Lower[section]>> \in Prefix
                   /\ <<o, Lower[key]>> \in Prefix}

(* Mutant: the old string is not freed.                                    *)
set_string_leak(value) ==
  /\ heap' = heap \union {NewString}
  /\ text' = Append(text, value)
  /\ sCurrSSettings' = [sCurrSSettings EXCEPT !.logfile = NewString]

(* Free the old string, duplicate the value.                               *)
set_string(value) ==
  /\ heap' = (heap \ {sCurrSSettings.logfile}) \union {NewString}
  /\ text' = Append(text, value)
  /\ sCurrSSettings' = [sCurrSSettings EXCEPT !.logfile = NewString]

(* Mutant: a value that is set is kept.                                    *)
set_long_first(o, value) ==
  /\ sCurrSSettings' = [sCurrSSettings EXCEPT ![o] =
                          IF @ = 0 THEN Strtol[value] ELSE @]
  /\ UNCHANGED <<heap, text>>

set_long(o, value) ==
  /\ sCurrSSettings' = [sCurrSSettings EXCEPT ![o] = Strtol[value]]
  /\ UNCHANGED <<heap, text>>

parse_option(section, key, value) ==
  \/ /\ Matches(section, key) = {}
     /\ UNCHANGED <<sCurrSSettings, heap, text>>
  \/ \E o \in Matches(section, key) :
       IF o = "logfile" THEN set_string(value) ELSE set_long(o, value)

ini_read_pair ==
  /\ pc = "pair"
  /\ Len(seen) < MaxPairs /\ NewString <= MaxStrings
  /\ \E key \in Keys, value \in Texts :
       /\ parse_option(Section.name, key, value)
       /\ seen' = Append(seen, [section |-> Section.name, key |-> key, value |-> value])
  /\ UNCHANGED <<pc, Section, sCopy, base, abandoned>>

-----------------------------------------------------------------------------

settings_get ==
  /\ pc = "idle"
  /\ sCopy' = sCurrSSettings
  /\ UNCHANGED <<pc, sCurrSSettings, Section, heap, text, base, seen, abandoned>>

(* The settings with the text of the logfile's name for its pointer.       *)
Valued(s, t) == [s EXCEPT !.logfile = IF @ = NULL THEN <<>> ELSE <<t[@]>>]

(* A caller sets the copy it got, with lMaxClientsPerThread changed; it    *)
(* got it after the last logfile was read.                                 *)
settings_set ==
  /\ pc = "idle"
  /\ sCopy.logfile = sCurrSSettings.logfile
  /\ \E value \in Texts :
       sCurrSSettings' = [sCopy EXCEPT !.clients = Strtol[value]]
  /\ base' = Valued(sCurrSSettings', text) /\ seen' = <<>>
  /\ UNCHANGED <<pc, Section, heap, text, sCopy, abandoned>>

(* Free the string, zero the rest.                                         *)
settings_destroy ==
  /\ pc = "idle"
  /\ heap' = heap \ {sCurrSSettings.logfile}
  /\ sCurrSSettings' = Zero
  /\ base' = Valued(Zero, text) /\ seen' = <<>>
  /\ UNCHANGED <<pc, Section, text, sCopy, abandoned>>

Next ==
  \/ settings_load \/ ini_next_section \/ ini_read_pair
  \/ section_ends \/ load_ends
  \/ settings_get \/ settings_set \/ settings_destroy

Spec == Init /\ [][Next]_vars

-----------------------------------------------------------------------------
(***************************************************************************)
(* The port of main: (int16_t) lPort, passed as uint16_t.                  *)
(***************************************************************************)
int16_t(n) == ((n + 32768) % 65536) - 32768

(* Mutant: the parameter of socket_setup is signed.                        *)
iPort_signed(lPort) == int16_t(lPort)

iPort(lPort) == int16_t(lPort) % 65536

-----------------------------------------------------------------------------
(***************************************************************************)
(* Properties.                                                             *)
(***************************************************************************)
(* The types of tsSSettings and of the state of settings_load.             *)
TypeOK ==
  /\ pc \in {"idle", "section", "pair"}
  /\ \A s \in {sCurrSSettings, sCopy} :
       /\ s \in [Options -> Int]
       /\ s.logfile \in {NULL} \union DOMAIN text
  /\ Section = NoSection <=> pc # "pair"
  /\ heap \subseteq DOMAIN text /\ abandoned \subseteq DOMAIN text
  /\ Len(seen) <= MaxPairs /\ Len(text) <= MaxStrings

(* The pairs read that concern option o.                                   *)
Concerning(o) == {n \in DOMAIN seen : o \in Matches(seen[n].section, seen[n].key)}

(* Whatever the order of sections, keys and loads, and however a load      *)
(* ended: an option has the value of the last pair read for it, in the     *)
(* file that is being read or one read before (cew_settings.c:97-108),     *)
(* else the value it was set to.                                           *)
LastPairWins ==
  \A o \in Options :
    LET value == seen[Max(Concerning(o))].value
    IN Valued(sCurrSSettings, text)[o] =
         IF Concerning(o) = {} THEN base[o]
         ELSE IF o = "logfile" THEN <<value>> ELSE Strtol[value]

(* Every string has one owner: the settings own the logfile's name, the    *)
(* loader the name of its section; what a failed load leaves behind        *)
(* (cew_settings.c:163) is lost.  So nothing else leaks, pcLogfile never   *)
(* dangles, and settings_destroy frees it once, after any loads and sets.  *)
StringsOwned ==
  /\ heap = ({sCurrSSettings.logfile, Section.string} \ {NULL}) \union abandoned
  /\ sCurrSSettings.logfile \notin abandoned \union ({Section.string} \ {NULL})

(* The port of the settings, through int16_t (cew_main.c:173), uint16_t    *)
(* and decimal text (cew_socket.c:55-66), is the port that is bound: also  *)
(* above 32767.                                                            *)
PortIsWanted ==
  LET lPort == sCurrSSettings.port
  IN 0 <= lPort /\ lPort < 65536 => iPort(lPort) = lPort
=============================================================================
