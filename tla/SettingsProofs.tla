--------------------------- MODULE SettingsProofs ---------------------------
(***************************************************************************)
(* Proofs about Settings: for any file contents, any number of loads and   *)
(* any order of calls.                                                     *)
(***************************************************************************)
EXTENDS Settings, WellFoundedInduction, TLAPS

-----------------------------------------------------------------------------
(***************************************************************************)
(* The inductive invariant.                                                *)
(***************************************************************************)

(* The sequences of the model.                                             *)
Pairs == [section : Sections, key : Keys, value : Texts]
Strings == Texts \union {""}

SeqTypes == text \in Seq(Strings) /\ seen \in Seq(Pairs)

(* The loader owns the string of the section it is in, and no other.       *)
SectionInv ==
  /\ Section.name \in Sections \union {""}
  /\ Section.string \in {NULL} \union DOMAIN text
  /\ Section.string = NULL <=> pc # "pair"
  /\ pc = "pair" => Section.name \in Sections
  /\ Section.string \notin abandoned

IInv == TypeOK /\ SeqTypes /\ SectionInv /\ StringsOwned /\ LastPairWins

-----------------------------------------------------------------------------
(***************************************************************************)
(* Sets of numbers and sequences.                                          *)
(***************************************************************************)

(* A set of naturals has a least element.                                  *)
LEMMA LeastOfNats ==
  ASSUME NEW S \in SUBSET Nat, S # {}
  PROVE  \E m \in S : \A n \in S : m <= n
<1> DEFINE R == {ss \in Nat \X Nat : ss[1] < ss[2]}
<1>1. IsWellFoundedOn(R, Nat)
  BY NatLessThanWellFounded DEF OpToRel
<1>2. PICK x \in S : \A y \in S : ~(<<y, x>> \in R)
  BY <1>1, WFMin, Zenon
<1>3. \A a, b \in Nat : a < b => <<a, b>> \in R
  OBVIOUS
<1> HIDE DEF R
<1>4. \A y \in S : ~(y < x)
  BY <1>2, <1>3, Zenon
<1> QED
  BY <1>4

(* Max is an element of a set of positions.                                *)
LEMMA MaxIsIn ==
  ASSUME NEW n \in Nat, NEW S \in SUBSET (1..n), S # {}
  PROVE  Max(S) \in S
<1> DEFINE T == {k \in Nat : n - k \in S}
<1>1. \A x \in S : n - x \in T
  OBVIOUS
<1>2. T \in SUBSET Nat /\ T # {}
  BY <1>1, Zenon
<1>3. PICK m \in T : \A k \in T : m <= k
  BY <1>2, LeastOfNats, Zenon
<1>4. n - m \in S /\ m \in Nat
  OBVIOUS
<1>5. \A y \in S : n - m >= y
  BY <1>1, <1>3, <1>4
<1> QED
  BY <1>4, <1>5, Zenon DEF Max

(* The position after the others is the greatest.                          *)
LEMMA MaxIsLast ==
  ASSUME NEW n \in Nat, NEW S \in SUBSET (1..n)
  PROVE  Max(S \union {n + 1}) = n + 1
<1> DEFINE T == S \union {n + 1}
<1>1. \A y \in T : n + 1 >= y
  OBVIOUS
<1>2. \A x \in T : (\A y \in T : x >= y) => x = n + 1
  OBVIOUS
<1>3. n + 1 \in T
  OBVIOUS
<1> HIDE DEF T
<1>4. Max(T) \in T /\ \A y \in T : Max(T) >= y
  BY <1>1, <1>3 DEF Max
<1> QED
  BY <1>2, <1>4, Zenon DEF T

(* The empty sequence.                                                     *)
LEMMA EmptySeq ==
  ASSUME NEW S
  PROVE  <<>> \in Seq(S) /\ Len(<<>>) = 0
BY SMT

(* The positions of a sequence.                                            *)
LEMMA Positions ==
  ASSUME NEW S, NEW s \in Seq(S)
  PROVE  Len(s) \in Nat /\ DOMAIN s = 1..Len(s)
BY SMT

(* Appending keeps the elements there are.                                 *)
LEMMA Appended ==
  ASSUME NEW S, NEW s \in Seq(S), NEW e \in S
  PROVE  /\ Append(s, e) \in Seq(S)
         /\ Len(Append(s, e)) = Len(s) + 1 /\ Len(s) \in Nat
         /\ DOMAIN s = 1..Len(s)
         /\ DOMAIN Append(s, e) = DOMAIN s \union {Len(s) + 1}
         /\ \A n \in DOMAIN s : Append(s, e)[n] = s[n]
         /\ Append(s, e)[Len(s) + 1] = e
BY SMT

-----------------------------------------------------------------------------
(***************************************************************************)
(* The invariant is inductive.                                             *)
(***************************************************************************)

(* One name is taken for one option at most.                               *)
LEMMA MatchesOne ==
  ASSUME NEW s \in Sections, NEW k \in Keys
  PROVE  \A o, p \in Matches(s, k) : o = p
BY SettingsAssumption DEF Matches

(* Before anything is read there is nothing to own.                        *)
LEMMA InitInv == Init => IInv
<1> SUFFICES ASSUME Init PROVE IInv
  OBVIOUS
<1>1. TypeOK
  <2>1. Zero \in [Options -> Int] /\ Zero.logfile = NULL
    BY DEF Zero, NULL, Options, sKnownOptions
  <2> QED
    BY <2>1, SettingsAssumption, EmptySeq DEF Init, TypeOK
<1>2. SeqTypes /\ SectionInv
  BY EmptySeq, Zenon DEF Init, SeqTypes, SectionInv, NoSection, NULL
<1>3. StringsOwned
  BY Zenon
     DEF Init, StringsOwned, Zero, NoSection, NULL, Options, sKnownOptions
<1>4. LastPairWins
  BY DEF Init, LastPairWins, Concerning, Valued, Zero, NULL
<1> QED
  BY <1>1, <1>2, <1>3, <1>4 DEF IInv

(* A string that is allocated leaves the settings' values as they were.    *)
LEMMA ValuedKept ==
  ASSUME NEW s \in [Options -> Int], NEW t \in Seq(Strings),
         NEW e \in Strings, s.logfile \in {NULL} \union DOMAIN t
  PROVE  Valued(s, Append(t, e)) = Valued(s, t)
<1>1. \A n \in DOMAIN t : Append(t, e)[n] = t[n]
  BY Appended
<1> QED
  BY <1>1 DEF Valued

(* What an option is set to.                                               *)
LEMMA ValuedAt ==
  ASSUME NEW s \in [Options -> Int], NEW t, NEW o \in Options
  PROVE  Valued(s, t)[o] = IF o # "logfile" THEN s[o]
                           ELSE IF s.logfile = NULL THEN <<>>
                           ELSE <<t[s.logfile]>>
BY DEF Valued

(* The latest pair for an option is one of the pairs.                      *)
LEMMA LatestPair ==
  ASSUME SeqTypes, NEW o, Concerning(o) # {}
  PROVE  Max(Concerning(o)) \in Concerning(o) /\ Max(Concerning(o)) \in DOMAIN seen
<1>1. Len(seen) \in Nat /\ DOMAIN seen = 1..Len(seen)
  BY Positions DEF SeqTypes
<1>2. Concerning(o) \in SUBSET (1..Len(seen))
  BY <1>1 DEF Concerning
<1> QED
  BY <1>1, <1>2, MaxIsIn, Zenon

(* The option of a pair that is read gets its value; the others keep       *)
(* theirs.                                                                 *)
LEMMA PairRead ==
  ASSUME IInv, pc = "pair", NEW k \in Keys, NEW v \in Texts,
         parse_option(Section.name, k, v),
         seen' = Append(seen, [section |-> Section.name, key |-> k, value |-> v]),
         UNCHANGED base
  PROVE  LastPairWins'
<1> DEFINE pair == [section |-> Section.name, key |-> k, value |-> v]
           M == Matches(Section.name, k)
<1>1. Section.name \in Sections
  BY Zenon DEF IInv, SectionInv
<1>2. pair \in Pairs
  BY <1>1 DEF Pairs
<1> HIDE DEF pair
<1>3. /\ Len(seen) \in Nat /\ DOMAIN seen = 1..Len(seen)
      /\ DOMAIN seen' = DOMAIN seen \union {Len(seen) + 1}
      /\ \A n \in DOMAIN seen : seen'[n] = seen[n]
      /\ seen'[Len(seen) + 1] = pair
  <2>1. seen \in Seq(Pairs) /\ seen' = Append(seen, pair)
    BY DEF IInv, SeqTypes, pair
  <2> QED
    BY <1>2, <2>1, Appended
<1>4. ASSUME NEW o \in Options
      PROVE  Concerning(o)' = IF o \in M THEN Concerning(o) \union {Len(seen) + 1}
                              ELSE Concerning(o)
  BY <1>3 DEF Concerning, pair
<1>5. /\ sCurrSSettings \in [Options -> Int] /\ text \in Seq(Strings)
      /\ sCurrSSettings.logfile \in {NULL} \union DOMAIN text
      /\ \A o, p \in M : o = p
      /\ M \subseteq Options
  BY <1>1, MatchesOne DEF IInv, TypeOK, SeqTypes, Matches
<1>6. ASSUME NEW o \in Options
      PROVE  Valued(sCurrSSettings', text')[o] =
               IF o \in M THEN IF o = "logfile" THEN <<v>> ELSE Strtol[v]
               ELSE Valued(sCurrSSettings, text)[o]
  <2>1. CASE UNCHANGED <<sCurrSSettings, heap, text>> /\ M = {}
    BY <2>1
  <2>2. ASSUME NEW p \in M, p # "logfile", set_long(p, v)
        PROVE  Valued(sCurrSSettings', text')[o] =
                 IF o = p THEN Strtol[v] ELSE Valued(sCurrSSettings, text)[o]
    <3>1. sCurrSSettings' \in [Options -> Int] /\ text' = text
      BY <2>2, <1>5, SettingsAssumption DEF set_long
    <3>2. /\ sCurrSSettings'.logfile = sCurrSSettings.logfile
          /\ sCurrSSettings'[o] = IF o = p THEN Strtol[v] ELSE sCurrSSettings[o]
      BY <2>2, <1>5 DEF set_long
    <3> QED
      <4>1. Valued(sCurrSSettings', text')[o] =
              IF o # "logfile" THEN sCurrSSettings'[o]
              ELSE IF sCurrSSettings'.logfile = NULL THEN <<>>
              ELSE <<text[sCurrSSettings'.logfile]>>
        BY <3>1, ValuedAt, SMTT(30)
      <4>2. Valued(sCurrSSettings, text)[o] =
              IF o # "logfile" THEN sCurrSSettings[o]
              ELSE IF sCurrSSettings.logfile = NULL THEN <<>>
              ELSE <<text[sCurrSSettings.logfile]>>
        BY <1>5, ValuedAt, Zenon
      <4> QED
        BY <2>2, <3>2, <4>1, <4>2
  <2>3. ASSUME "logfile" \in M, set_string(v)
        PROVE  Valued(sCurrSSettings', text')[o] =
                 IF o = "logfile" THEN <<v>> ELSE Valued(sCurrSSettings, text)[o]
    <3>1. /\ text' = Append(text, v) /\ text'[Len(text) + 1] = v
          /\ Len(text) \in Nat
      <4>1. v \in Strings /\ text' = Append(text, v)
        BY <2>3, Zenon DEF set_string, Strings
      <4> QED
        BY <1>5, <4>1, Appended
    <3>2. /\ sCurrSSettings' \in [Options -> Int]
          /\ sCurrSSettings'.logfile = Len(text) + 1
          /\ o # "logfile" => sCurrSSettings'[o] = sCurrSSettings[o]
      BY <2>3, <3>1, <1>5 DEF set_string, NewString
    <3> QED
      <4>1. Valued(sCurrSSettings', text')[o] =
              IF o # "logfile" THEN sCurrSSettings'[o]
              ELSE IF sCurrSSettings'.logfile = NULL THEN <<>>
              ELSE <<text'[sCurrSSettings'.logfile]>>
        BY <3>2, ValuedAt
      <4>2. sCurrSSettings'.logfile # NULL
        BY <3>1, <3>2 DEF NULL
      <4> QED
        BY <1>5, <3>1, <3>2, <4>1, <4>2, ValuedAt, Zenon
  <2> QED
    BY <1>5, <2>1, <2>2, <2>3 DEF parse_option
<1>7. ASSUME NEW o \in Options, o \in M
      PROVE  seen'[Max(Concerning(o)')].value = v /\ Concerning(o)' # {}
  <2>1. Concerning(o) \in SUBSET (1..Len(seen))
    BY <1>3 DEF Concerning
  <2>2. Max(Concerning(o)') = Len(seen) + 1
    BY <1>3, <1>4, <1>7, <2>1, MaxIsLast, Zenon
  <2> QED
    <3>1. seen'[Len(seen) + 1].value = v
      BY <1>3 DEF pair
    <3> QED
      BY <1>4, <1>7, <2>2, <3>1, SMTT(30)
<1>8. ASSUME NEW o \in Options, o \notin M, Concerning(o) # {}
      PROVE  seen'[Max(Concerning(o)')] = seen[Max(Concerning(o))]
  BY <1>3, <1>4, <1>8, LatestPair DEF IInv
<1>9. LastPairWins
  BY DEF IInv
<1> SUFFICES ASSUME NEW o \in Options
             PROVE  Valued(sCurrSSettings', text')[o] =
                      IF Concerning(o)' = {} THEN base[o]
                      ELSE IF o = "logfile"
                           THEN <<seen'[Max(Concerning(o)')].value>>
                           ELSE Strtol[seen'[Max(Concerning(o)')].value]
  BY Zenon DEF LastPairWins
<1>10. CASE o \in M
  BY <1>6, <1>7, <1>10, Zenon
<1>11. CASE o \notin M
  BY <1>4, <1>6, <1>8, <1>9, <1>11, Zenon DEF LastPairWins
<1> QED
  BY <1>10, <1>11, Zenon
(* Only ini_read_pair changes the settings or the pairs read.              *)
LEMMA SettingsKept ==
  ASSUME IInv, UNCHANGED <<sCurrSSettings, base, seen>>,
         text' = text \/ text' = Append(text, "")
  PROVE  LastPairWins'
<1>1. Valued(sCurrSSettings', text') = Valued(sCurrSSettings, text)
  <2>1. /\ sCurrSSettings \in [Options -> Int] /\ text \in Seq(Strings)
        /\ sCurrSSettings.logfile \in {NULL} \union DOMAIN text
        /\ "" \in Strings
    BY Zenon DEF IInv, TypeOK, SeqTypes, Strings
  <2>2. Valued(sCurrSSettings, Append(text, "")) = Valued(sCurrSSettings, text)
    BY <2>1, ValuedKept, Zenon
  <2> QED
    BY <2>2, Zenon
<1>2. \A o : Concerning(o)' = Concerning(o)
  BY Zenon DEF Concerning
<1> QED
  BY <1>1, <1>2, Zenon DEF IInv, LastPairWins

(* Every operation preserves the invariant.                                *)
LEMMA NextInv == IInv /\ [Next]_vars => IInv'
<1> SUFFICES ASSUME IInv, [Next]_vars PROVE IInv'
  OBVIOUS
<1>inv. TypeOK /\ SeqTypes /\ SectionInv /\ StringsOwned
  BY DEF IInv
<1>seq. /\ Len(text) \in Nat /\ DOMAIN text = 1..Len(text)
        /\ NewString \notin DOMAIN text /\ NewString \in Nat \ {NULL}
        /\ NULL \notin DOMAIN text
  BY <1>inv, Positions DEF SeqTypes, NewString, NULL
<1>app. ASSUME NEW e \in Strings, text' = Append(text, e)
        PROVE  /\ text' \in Seq(Strings) /\ Len(text') = NewString
               /\ DOMAIN text' = DOMAIN text \union {NewString}
  BY <1>app, <1>inv, Appended DEF SeqTypes, NewString
<1>1. CASE settings_load
  <2>1. TypeOK' /\ SeqTypes' /\ SectionInv' /\ StringsOwned'
    BY <1>1, <1>inv, Zenon
       DEF settings_load, TypeOK, SeqTypes, SectionInv, StringsOwned
  <2> QED
    BY <1>1, <2>1, SettingsKept DEF settings_load, IInv
<1>2. CASE ini_next_section
  <2>1. PICK n \in Sections : Section' = [name |-> n, string |-> NewString]
    BY <1>2, Zenon DEF ini_next_section
  <2>2. text' = Append(text, "") /\ "" \in Strings
    BY <1>2, Zenon DEF ini_next_section, Strings
  <2>3. TypeOK'
    BY <1>2, <1>inv, <1>seq, <1>app, <2>1, <2>2, Zenon
       DEF ini_next_section, TypeOK, NoSection
  <2>4. SeqTypes' /\ SectionInv'
    BY <1>2, <1>inv, <1>seq, <1>app, <2>1, <2>2, Zenon
       DEF ini_next_section, TypeOK, SeqTypes, SectionInv
  <2>5. StringsOwned'
    BY <1>2, <1>inv, <1>seq, <2>1, Zenon
       DEF ini_next_section, TypeOK, SectionInv, StringsOwned
  <2> QED
    BY <1>2, <2>2, <2>3, <2>4, <2>5, SettingsKept, Zenon
       DEF ini_next_section, IInv
<1>3. CASE ini_read_pair
  <2>1. PICK k \in Keys, v \in Texts :
          /\ parse_option(Section.name, k, v)
          /\ seen' = Append(seen, [section |-> Section.name, key |-> k, value |-> v])
    BY <1>3 DEF ini_read_pair
  <2>2. pc = "pair" /\ UNCHANGED <<pc, Section, sCopy, base, abandoned>>
    BY <1>3 DEF ini_read_pair
  <2>3. LastPairWins'
    BY <2>1, <2>2, PairRead
  <2>4. seen' \in Seq(Pairs) /\ Len(seen') <= MaxPairs
    <3>1. [section |-> Section.name, key |-> k, value |-> v] \in Pairs
      BY <1>inv, <2>2, Zenon DEF SectionInv, Pairs
    <3>2. Len(seen) \in Nat /\ Len(seen') = Len(seen) + 1 /\ seen' \in Seq(Pairs)
      BY <1>inv, <2>1, <3>1, Appended DEF SeqTypes
    <3> QED
      BY <1>3, <3>2, SettingsAssumption DEF ini_read_pair
  <2>5. CASE set_string(v)
    <3>1. text' = Append(text, v) /\ v \in Strings
      BY <2>5, Zenon DEF set_string, Strings
    <3>2. /\ text' \in Seq(Strings) /\ Len(text') = NewString
          /\ DOMAIN text' = DOMAIN text \union {NewString}
      BY <1>app, <3>1
    <3>3. /\ sCurrSSettings' \in [Options -> Int]
          /\ sCurrSSettings'.logfile = NewString
          /\ heap' = (heap \ {sCurrSSettings.logfile}) \union {NewString}
      <4>1. "logfile" \in Options /\ NewString \in Int
        BY <1>seq DEF Options, sKnownOptions
      <4> QED
        BY <1>inv, <2>5, <4>1 DEF set_string, TypeOK
    <3>4. TypeOK'
      BY <1>3, <1>inv, <2>2, <2>4, <3>2, <3>3 DEF TypeOK, ini_read_pair
    <3>5. SeqTypes' /\ SectionInv'
      BY <1>inv, <2>2, <2>4, <3>2, Zenon DEF SeqTypes, SectionInv
    <3>6. StringsOwned'
      BY <1>inv, <1>seq, <2>2, <3>3, ZenonT(30)
         DEF TypeOK, SectionInv, StringsOwned
    <3> QED
      BY <2>3, <3>4, <3>5, <3>6 DEF IInv
  <2>6. ASSUME UNCHANGED <<heap, text>>, sCurrSSettings' \in [Options -> Int],
               sCurrSSettings'.logfile = sCurrSSettings.logfile
        PROVE  IInv'
    <3>1. TypeOK'
      BY <1>3, <1>inv, <2>2, <2>4, <2>6 DEF TypeOK, ini_read_pair
    <3>2. SeqTypes' /\ SectionInv' /\ StringsOwned'
      BY <1>inv, <2>2, <2>4, <2>6, Zenon DEF SeqTypes, SectionInv, StringsOwned
    <3> QED
      BY <2>3, <3>1, <3>2 DEF IInv
  <2>7. ASSUME NEW o \in Options, o # "logfile", set_long(o, v)
        PROVE  IInv'
    <3>1. /\ sCurrSSettings' \in [Options -> Int]
          /\ sCurrSSettings'.logfile = sCurrSSettings.logfile
      BY <1>inv, <2>7, SettingsAssumption DEF set_long, TypeOK
    <3> QED
      BY <2>6, <2>7, <3>1 DEF set_long
  <2> QED
    BY <1>inv, <2>1, <2>5, <2>6, <2>7, Zenon DEF parse_option, Matches, TypeOK
<1>4. CASE section_ends
  <2>1. TypeOK' /\ SeqTypes' /\ SectionInv'
    BY <1>4, <1>inv, <1>seq, Zenon
       DEF section_ends, TypeOK, SeqTypes, SectionInv, NoSection
  <2>2. StringsOwned'
    BY <1>4, <1>inv, <1>seq, Zenon
       DEF section_ends, TypeOK, SectionInv, StringsOwned, NoSection
  <2> QED
    BY <1>4, <2>1, <2>2, SettingsKept DEF section_ends, IInv
<1>5. CASE load_ends
  <2>1. TypeOK' /\ SeqTypes' /\ SectionInv'
    BY <1>5, <1>inv, <1>seq, Zenon
       DEF load_ends, TypeOK, SeqTypes, SectionInv, NoSection
  <2>2. StringsOwned'
    BY <1>5, <1>inv, <1>seq, Zenon
       DEF load_ends, TypeOK, SectionInv, StringsOwned, NoSection
  <2> QED
    BY <1>5, <2>1, <2>2, SettingsKept DEF load_ends, IInv
<1>6. CASE settings_get
  <2>1. TypeOK' /\ SeqTypes' /\ SectionInv' /\ StringsOwned'
    BY <1>6, <1>inv, Zenon
       DEF settings_get, TypeOK, SeqTypes, SectionInv, StringsOwned
  <2> QED
    BY <1>6, <2>1, SettingsKept DEF settings_get, IInv
<1>7. CASE settings_set
  <2>1. /\ sCurrSSettings' \in [Options -> Int]
        /\ sCurrSSettings'.logfile = sCurrSSettings.logfile
    BY <1>7, <1>inv, SettingsAssumption DEF settings_set, TypeOK
  <2>2. TypeOK'
    BY <1>7, <1>inv, <2>1, SettingsAssumption DEF settings_set, TypeOK
  <2>3. SeqTypes' /\ SectionInv' /\ StringsOwned'
    BY <1>7, <1>inv, <2>1, EmptySeq, Zenon
       DEF settings_set, SeqTypes, SectionInv, StringsOwned
  <2>4. LastPairWins'
    BY <1>7 DEF settings_set, LastPairWins, Concerning
  <2> QED
    BY <2>2, <2>3, <2>4 DEF IInv
<1>8. CASE settings_destroy
  <2>1. Zero \in [Options -> Int] /\ Zero.logfile = NULL
    BY DEF Zero, NULL, Options, sKnownOptions
  <2>2. TypeOK'
    BY <1>8, <1>inv, <2>1, SettingsAssumption DEF settings_destroy, TypeOK
  <2>3. SeqTypes' /\ SectionInv'
    BY <1>8, <1>inv, EmptySeq, Zenon DEF settings_destroy, SeqTypes, SectionInv
  <2>4. StringsOwned'
    <3>1. /\ heap = ({sCurrSSettings.logfile} \ {NULL}) \union abandoned
          /\ sCurrSSettings.logfile \notin abandoned /\ NULL \notin abandoned
          /\ Section.string = NULL
      BY <1>8, <1>inv, <1>seq, Zenon
         DEF settings_destroy, TypeOK, SectionInv, StringsOwned
    <3>2. heap' = abandoned /\ sCurrSSettings'.logfile = NULL
      BY <1>8, <2>1, <3>1 DEF settings_destroy
    <3> QED
      BY <1>8, <3>1, <3>2 DEF settings_destroy, StringsOwned
  <2>5. LastPairWins'
    BY <1>8 DEF settings_destroy, LastPairWins, Concerning
  <2> QED
    BY <2>2, <2>3, <2>4, <2>5 DEF IInv
<1>9. CASE UNCHANGED vars
  <2>1. TypeOK' /\ SeqTypes' /\ SectionInv' /\ StringsOwned'
    BY <1>9, <1>inv, Zenon DEF vars, TypeOK, SeqTypes, SectionInv, StringsOwned
  <2> QED
    BY <1>9, <2>1, SettingsKept DEF vars, IInv
<1> QED
  BY <1>1, <1>2, <1>3, <1>4, <1>5, <1>6, <1>7, <1>8, <1>9 DEF Next

-----------------------------------------------------------------------------
(***************************************************************************)
(* The port.                                                               *)
(***************************************************************************)

(* The conversions of main and socket_setup leave a 16 bit port as it was. *)
LEMMA PortConversion ==
  ASSUME NEW n \in Int, 0 <= n, n < 65536
  PROVE  iPort(n) = n
<1>1. CASE n < 32768
  <2>1. int16_t(n) = n
    BY <1>1, SMT DEF int16_t
  <2> QED
    BY <1>1, <2>1, SMT DEF iPort
<1>2. CASE ~(n < 32768)
  <2>1. int16_t(n) = n - 65536
    BY <1>2, SMT DEF int16_t
  <2> QED
    BY <1>2, <2>1, SMT DEF iPort
<1> QED
  BY <1>1, <1>2

-----------------------------------------------------------------------------
(***************************************************************************)
(* The properties.                                                         *)
(***************************************************************************)

(* The invariant holds throughout.                                        *)
LEMMA Invariant == Spec => []IInv
BY InitInv, NextInv, PTL DEF Spec

(* Settings and the loader's state keep their types through all calls.     *)
THEOREM TypeCorrect == Spec => []TypeOK
<1>1. IInv => TypeOK
  BY DEF IInv
<1> QED
  BY <1>1, Invariant, PTL

(* After any loads, failed or not, an option has the value of the last     *)
(* pair read for it (cew_settings.c:97-108).                               *)
THEOREM LastPairCorrect == Spec => []LastPairWins
<1>1. IInv => LastPairWins
  BY DEF IInv
<1> QED
  BY <1>1, Invariant, PTL

(* pcLogfile never dangles and no string but a failed load's section is    *)
(* leaked (cew_settings.c:101-109, 209-224).                               *)
THEOREM OwnershipCorrect == Spec => []StringsOwned
<1>1. IInv => StringsOwned
  BY DEF IInv
<1> QED
  BY <1>1, Invariant, PTL

(* Any port of the settings that is one is bound as it stands              *)
(* (cew_main.c:173, cew_socket.c:55-66).                                   *)
THEOREM PortCorrect == Spec => []PortIsWanted
<1>1. TypeOK => PortIsWanted
  <2>1. TypeOK => sCurrSSettings.port \in Int
    BY DEF TypeOK, Options, sKnownOptions
  <2> QED
    BY <2>1, PortConversion, SMT DEF PortIsWanted
<1> QED
  BY <1>1, TypeCorrect, PTL
=============================================================================
