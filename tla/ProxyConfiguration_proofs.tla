----------------------- MODULE ProxyConfiguration_proofs -----------------------
(***************************************************************************)
(* What holds of ProxyConfiguration for every site, port and setting, and  *)
(* every file an administrator may write.                                  *)
(***************************************************************************)
EXTENDS ProxyConfiguration, SequenceTheorems, WellFoundedInduction, TLAPS

-----------------------------------------------------------------------------
(* Sequences.                                                              *)

(* What the search for the first entry that is no number finds.            *)
LEMMA CutExists ==
    ASSUME NEW S, NEW s \in Seq(S)
    PROVE  \E n \in 0..Len(s) : /\ \A i \in 1..n : s[i] # Unreadable
                                /\ n < Len(s) => s[n + 1] = Unreadable
<1>1. CASE \A i \in 1..Len(s) : s[i] # Unreadable
  BY <1>1
<1>2. CASE \E i \in 1..Len(s) : s[i] = Unreadable
  <2> DEFINE T == {i \in Nat : i + 1 \in 1..Len(s) /\ s[i + 1] = Unreadable}
  <2>1. T # {} /\ T \subseteq Nat
    <3>1. PICK i \in 1..Len(s) : s[i] = Unreadable
      BY <1>2
    <3>2. i - 1 \in T
      BY <3>1
    <3> QED
      BY <3>2
  <2>2. PICK n \in T : \A m \in T : <<m, n>> \notin OpToRel(<, Nat)
    BY <2>1, NatLessThanWellFounded, WFMin
  <2>3. n \in Nat /\ \A m \in T : ~(m < n)
    BY <2>1, <2>2 DEF OpToRel
  <2>4. Len(s) \in Nat /\ n + 1 \in 1..Len(s) /\ s[n + 1] = Unreadable
    <3>1. Len(s) \in Nat
      BY LenProperties
    <3> QED
      BY <2>2, <3>1, Zenon
  <2>5. \A i \in 1..n : s[i] # Unreadable
    <3>1. SUFFICES ASSUME NEW i \in 1..n, s[i] = Unreadable PROVE FALSE
      OBVIOUS
    <3>2. i - 1 \in T
      BY <2>3, <2>4, <3>1
    <3>3. i - 1 < n
      BY <2>3, <3>1
    <3> QED
      BY <2>3, <3>2, <3>3
  <2> HIDE DEF T
  <2> QED
    BY <2>3, <2>4, <2>5
<1> QED
  BY <1>1, <1>2

(* The entries read are the first entries, and none of them is no number.  *)
LEMMA ReadableIsPrefix ==
    ASSUME NEW S, NEW s \in Seq(S \cup {Unreadable})
    PROVE  /\ Readable(s) \in Seq(S)
           /\ (\A i \in 1..Len(s) : s[i] # Unreadable) => Readable(s) = s
<1> DEFINE Cut(n) == /\ \A i \in 1..n : s[i] # Unreadable
                     /\ n < Len(s) => s[n + 1] = Unreadable
           c == CHOOSE n \in 0..Len(s) : Cut(n)
<1>1. c \in 0..Len(s) /\ Cut(c)
  <2>1. \E n \in 0..Len(s) : Cut(n)
    BY CutExists
  <2> QED
    BY <2>1
<1>2. Readable(s) = SubSeq(s, 1, c)
  BY DEF Readable
<1> HIDE DEF c
<1>3. Len(SubSeq(s, 1, c)) = c /\ \A i \in 1..c : SubSeq(s, 1, c)[i] = s[i]
  BY <1>1
<1>4. SubSeq(s, 1, c) \in Seq(S)
  <2>1. \A i \in 1..c : s[i] \in S
    BY <1>1
  <2>2. SubSeq(s, 1, c) = [i \in 1..c |-> s[i]]
    BY <1>1
  <2> QED
    BY <1>1, <2>1, <2>2
<1>5. ASSUME \A i \in 1..Len(s) : s[i] # Unreadable
      PROVE  SubSeq(s, 1, c) = s
  <2>1. c = Len(s)
    BY <1>1, <1>5
  <2> QED
    BY <2>1, SubSeqFull
<1> QED
  BY <1>2, <1>4, <1>5

(* What a load takes of a section is a list of entries.                    *)
LEMMA ReadType ==
    ASSUME NEW l \in ListName,
           NEW s \in Seq(IF l \in PortLists THEN Entry(l) \cup {Unreadable} ELSE Entry(l))
    PROVE  /\ Read(l, s) \in Seq(Entry(l))
           /\ (l \in PortLists => \A i \in 1..Len(s) : s[i] # Unreadable) => Read(l, s) = Trimmed(l, s)
<1>1. CASE l \in PortLists
  BY <1>1, ReadableIsPrefix DEF Read, Trimmed
<1>2. CASE l \notin PortLists
  <2>1. Entry(l) = Sites \cup {"all"}
    BY <1>2 DEF Entry
  <2>2. Len(s) \in Nat /\ \A i \in 1..Len(s) : s[i] \in Sites \cup {"all"}
    BY <1>2, <2>1
  <2>3. \A w \in Sites \cup {"all"} : Trim[w] \in Sites \cup {"all"}
    BY ConfigurationAssumption
  <2>4. [i \in 1..Len(s) |-> Trim[s[i]]] \in Seq(Sites \cup {"all"})
    BY <2>2, <2>3
  <2> QED
    BY <1>2, <2>1, <2>4 DEF Read, Trimmed
<1> QED
  BY <1>1, <1>2

-----------------------------------------------------------------------------
(* The inductive invariant: the types, and that the file still holds what  *)
(* was saved to it.                                                        *)
SavedIsInFile ==
    saved # <<>> =>
        /\ file.syntax /\ file.lists = saved[1].lists
        /\ \A l \in ListName : saved[1].lists[l] \in Seq(Entry(l))
        /\ \A k \in Setting : saved[1].settings[k] # Garbage =>
              /\ saved[1].settings[k] \in Value(k)
              /\ file.settings[k] = saved[1].settings[k]

IInv == TypeOK /\ SavedIsInFile

LEMMA FilesAreFiles == IsFile(Emptied) /\ IsFile(NoFile)
<1>1. NoLists = [l \in ListName |-> <<>>] /\ NoTexts = [k \in Setting |-> Missing]
  BY DEF NoLists, NoTexts
<1> QED
  BY <1>1 DEF IsFile, Emptied, NoFile

(* write_ini writes a file that read_ini can read.                         *)
LEMMA WrittenIsFile ==
    ASSUME TypeOK, NEW any \in [IntKeys -> Numbers]
    PROVE  IsFile(Written(any))
<1> DEFINE w == Written(any)
<1>1. /\ DOMAIN w = {"syntax", "lists", "settings"} /\ w.syntax = TRUE /\ w.lists = lists
      /\ w.settings = [k \in Setting |-> IF settings[k] = Garbage THEN any[k] ELSE settings[k]]
  BY DEF Written
<1>2. ASSUME NEW l \in ListName
      PROVE  w.lists[l] \in Seq(IF l \in PortLists THEN Entry(l) \cup {Unreadable} ELSE Entry(l))
  BY <1>1, SeqMonotonic DEF TypeOK
<1>3. ASSUME NEW k \in Setting
      PROVE  w.settings[k] \in Value(k)
  <2>1. w.settings[k] = IF settings[k] = Garbage THEN any[k] ELSE settings[k]
    BY <1>1
  <2>2. settings[k] \in Value(k) \cup (IF k \in IntKeys THEN {Garbage} ELSE {})
    BY DEF TypeOK
  <2>3. CASE k \in StringKeys
    <3>1. Value(k) = Words /\ Garbage \notin Words /\ k \notin IntKeys
      BY <2>3, ConfigurationAssumption DEF Value
    <3> QED
      BY <2>1, <2>2, <3>1
  <2>4. CASE k \in IntKeys
    <3>1. Value(k) = Numbers /\ any[k] \in Numbers
      BY <2>4, ConfigurationAssumption DEF Value
    <3> QED
      BY <2>1, <2>2, <3>1
  <2> QED
    BY <2>3, <2>4 DEF Setting
<1>4. DOMAIN w.lists = ListName /\ DOMAIN w.settings = Setting
  BY <1>1 DEF TypeOK
<1> HIDE DEF w
<1>5. IsFile(w)
  BY <1>1, <1>2, <1>3, <1>4 DEF IsFile
<1> QED
  BY <1>5 DEF w

LEMMA BoundIsNat == MaxCalls \in Nat
BY ConfigurationAssumption

LEMMA InitIsInductive == Init => IInv
<1> SUFFICES ASSUME Init PROVE IInv
  OBVIOUS
<1>1. lists = [l \in ListName |-> <<>>] /\ DOMAIN settings = Setting
  BY DEF Init, NoLists, FreshSettings
<1>2. ASSUME NEW k \in Setting
      PROVE  settings[k] \in Value(k) \cup (IF k \in IntKeys THEN {Garbage} ELSE {})
  BY ConfigurationAssumption DEF Init, FreshSettings, Value, Setting
<1>3. outcome \in {"returned", "threw"} /\ IsFile(file) /\ saved = <<>>
  BY FilesAreFiles DEF Init
<1>4. calls \in 0..MaxCalls
  BY BoundIsNat DEF Init
<1> QED
  BY <1>1, <1>2, <1>3, <1>4 DEF IInv, TypeOK, SavedIsInFile

(* A file whose last sections were lost is a file.                         *)
LEMMA CutFileIsFile ==
    ASSUME NEW f, IsFile(f), NEW n \in 0..3
    PROVE  IsFile([f EXCEPT !.lists = [l \in ListName |-> IF Position(l) <= n THEN @[l] ELSE <<>>]])
<1> DEFINE g == [f EXCEPT !.lists = [l \in ListName |-> IF Position(l) <= n THEN @[l] ELSE <<>>]]
<1>1. /\ DOMAIN g = {"syntax", "lists", "settings"} /\ g.syntax = f.syntax /\ g.settings = f.settings
      /\ g.lists = [l \in ListName |-> IF Position(l) <= n THEN f.lists[l] ELSE <<>>]
  BY DEF IsFile
<1> HIDE DEF g
<1>2. ASSUME NEW l \in ListName
      PROVE  g.lists[l] \in Seq(IF l \in PortLists THEN Entry(l) \cup {Unreadable} ELSE Entry(l))
  <2>1. f.lists[l] \in Seq(IF l \in PortLists THEN Entry(l) \cup {Unreadable} ELSE Entry(l))
    BY DEF IsFile
  <2>2. g.lists[l] = f.lists[l] \/ g.lists[l] = <<>>
    BY <1>1
  <2> QED
    BY <2>1, <2>2, EmptySeq
<1>3. IsFile(g)
  BY <1>1, <1>2 DEF IsFile
<1> QED
  BY <1>3 DEF g

(* The lists stay lists of entries.                                        *)
ListsOK == DOMAIN lists = ListName /\ \A l \in ListName : lists[l] \in Seq(Entry(l))

LEMMA AddKeepsLists ==
    ASSUME ListsOK, NEW l \in ListName, NEW x \in Entry(l), Add(l, x)
    PROVE  ListsOK'
<1>1. lists' = [lists EXCEPT ![l] = Append(@, x)]
  BY DEF Add
<1>2. Append(lists[l], x) \in Seq(Entry(l))
  BY AppendProperties DEF ListsOK
<1> QED
  BY <1>1, <1>2 DEF ListsOK

LEMMA EraseKeepsLists ==
    ASSUME ListsOK, NEW l \in ListName, NEW x \in Entry(l), Erase(l, x)
    PROVE  ListsOK'
<1> DEFINE kept == {i \in 1..Len(lists[l]) : lists[l][i] # x}
<1>1. PICK n \in 0..Len(lists[l]) : \E at \in [1..n -> kept] :
         lists' = [lists EXCEPT ![l] = [i \in 1..n |-> lists[l][at[i]]]]
  BY DEF Erase
<1>2. PICK at \in [1..n -> kept] :
         lists' = [lists EXCEPT ![l] = [i \in 1..n |-> lists[l][at[i]]]]
  BY <1>1
<1>3. lists[l] \in Seq(Entry(l)) /\ Len(lists[l]) \in Nat
  BY LenProperties DEF ListsOK
<1>4. \A i \in 1..n : lists[l][at[i]] \in Entry(l)
  BY <1>3
<1>5. n \in Nat
  BY <1>3
<1>6. [i \in 1..n |-> lists[l][at[i]]] \in Seq(Entry(l))
  BY <1>4, <1>5
<1> QED
  BY <1>2, <1>6 DEF ListsOK

LEMMA LoadKeepsLists ==
    ASSUME ListsOK, IsFile(file), Load
    PROVE  ListsOK'
<1>1. CASE lists' = Appended
  <2>1. ASSUME NEW l \in ListName PROVE Appended[l] \in Seq(Entry(l))
    <3>1. lists[l] \in Seq(Entry(l)) /\ Read(l, file.lists[l]) \in Seq(Entry(l))
      BY ReadType DEF ListsOK, IsFile
    <3>2. lists[l] \o Read(l, file.lists[l]) \in Seq(Entry(l))
      BY <3>1, ConcatProperties
    <3> QED
      BY <3>1, <3>2 DEF Appended
  <2>2. DOMAIN Appended = ListName
    BY DEF Appended
  <2> QED
    BY <1>1, <2>1, <2>2 DEF ListsOK
<1>2. CASE UNCHANGED lists
  BY <1>2 DEF ListsOK
<1> QED
  BY <1>1, <1>2 DEF Load

LEMMA CallKeepsCount ==
    ASSUME calls \in 0..MaxCalls, NEW how \in {"returned", "threw"}, Call(how)
    PROVE  calls' \in 0..MaxCalls /\ outcome' \in {"returned", "threw"}
BY BoundIsNat DEF Call

SettingsOK ==
    /\ DOMAIN settings = Setting
    /\ \A k \in Setting : settings[k] \in Value(k) \cup (IF k \in IntKeys THEN {Garbage} ELSE {})

(* What a load takes of a key is a value of its setting.                   *)
LEMMA TakenType ==
    ASSUME SettingsOK, IsFile(file), NEW k \in Setting
    PROVE  Taken[k] \in Value(k) \cup (IF k \in IntKeys THEN {Garbage} ELSE {})
<1>1. settings[k] \in Value(k) \cup (IF k \in IntKeys THEN {Garbage} ELSE {})
  BY DEF SettingsOK
<1>2. file.settings[k] \in Value(k) \cup (IF k \in IntKeys THEN {Missing, Unreadable} ELSE {Missing})
  BY DEF IsFile
<1>3. CASE file.settings[k] \in {Missing, Unreadable}
  BY <1>1, <1>3 DEF Taken
<1>4. CASE file.settings[k] \notin {Missing, Unreadable} /\ k \in StringKeys
  <2>1. file.settings[k] \in Value(k)
    BY <1>2, <1>4
  <2>2. Value(k) = Words /\ \A w \in Words : Trim[w] \in Words
    BY <1>4, ConfigurationAssumption DEF Value
  <2> QED
    BY <1>4, <2>1, <2>2 DEF Taken
<1>5. CASE file.settings[k] \notin {Missing, Unreadable} /\ k \notin StringKeys
  BY <1>2, <1>5 DEF Taken
<1> QED
  BY <1>3, <1>4, <1>5

LEMMA FreshType ==
    ASSUME NEW k \in Setting
    PROVE  FreshSettings[k] \in Value(k) \cup (IF k \in IntKeys THEN {Garbage} ELSE {})
BY ConfigurationAssumption DEF FreshSettings, Value, Setting

-----------------------------------------------------------------------------
(* Every call and every edit keeps the inductive invariant.                *)
LEMMA StepIsInductive == IInv /\ [Next]_vars => IInv'
<1> SUFFICES ASSUME IInv, [Next]_vars PROVE IInv'
  OBVIOUS
<1> USE DEF IInv
<1>0. /\ TypeOK <=> ListsOK /\ SettingsOK /\ IsFile(file) /\ outcome \in {"returned", "threw"} /\ calls \in 0..MaxCalls
      /\ TypeOK' <=> ListsOK' /\ SettingsOK' /\ IsFile(file)' /\ (outcome \in {"returned", "threw"})' /\ (calls \in 0..MaxCalls)'
  BY DEF TypeOK, ListsOK, SettingsOK
<1>1. CASE New
  <2>1. ListsOK' /\ SettingsOK'
    <3>1. lists' = [l \in ListName |-> <<>>] /\ settings' = FreshSettings /\ DOMAIN FreshSettings = Setting
      BY <1>1 DEF New, NoLists, FreshSettings
    <3> QED
      BY <3>1, FreshType, EmptySeq DEF ListsOK, SettingsOK
  <2>2. UNCHANGED <<file, saved>> /\ Call("returned")
    BY <1>1 DEF New
  <2> QED
    BY <1>0, <2>1, <2>2, CallKeepsCount DEF SavedIsInFile
<1>2. ASSUME NEW l \in ListName, NEW x \in Entry(l), Add(l, x)
      PROVE  IInv'
  <2>1. UNCHANGED <<settings, file, saved>> /\ Call("returned")
    BY <1>2 DEF Add
  <2>2. ListsOK' /\ SettingsOK'
    BY <1>0, <1>2, <2>1, AddKeepsLists DEF SettingsOK
  <2> QED
    BY <1>0, <2>1, <2>2, CallKeepsCount DEF SavedIsInFile
<1>3. ASSUME NEW l \in ListName, NEW x \in Entry(l), Erase(l, x)
      PROVE  IInv'
  <2>1. UNCHANGED <<settings, file, saved>> /\ Call("returned")
    BY <1>3 DEF Erase
  <2>2. ListsOK' /\ SettingsOK'
    BY <1>0, <1>3, <2>1, EraseKeepsLists DEF SettingsOK
  <2> QED
    BY <1>0, <2>1, <2>2, CallKeepsCount DEF SavedIsInFile
<1>4. ASSUME NEW k \in Setting, NEW v \in Value(k), Set(k, v)
      PROVE  IInv'
  <2>1. UNCHANGED <<lists, file, saved>> /\ Call("returned") /\ settings' = [settings EXCEPT ![k] = v]
    BY <1>4 DEF Set
  <2>2. ListsOK' /\ SettingsOK'
    BY <1>0, <2>1 DEF SettingsOK, ListsOK
  <2> QED
    BY <1>0, <2>1, <2>2, CallKeepsCount DEF SavedIsInFile
<1>5. CASE Save
  <2>1. PICK any \in [IntKeys -> Numbers] : file' = Written(any)
    BY <1>5 DEF Save
  <2>2. saved' = <<[lists |-> lists, settings |-> settings]>> /\ UNCHANGED <<lists, settings>> /\ Call("returned")
    BY <1>5 DEF Save
  <2>3. ListsOK' /\ SettingsOK' /\ IsFile(file)'
    BY <1>0, <2>1, <2>2, WrittenIsFile DEF SettingsOK, ListsOK
  <2>4. SavedIsInFile'
    <3>1. saved'[1] = [lists |-> lists, settings |-> settings]
      BY <2>2
    <3>2. file'.syntax = TRUE /\ file'.lists = lists
      BY <2>1 DEF Written
    <3>3. \A k \in Setting : settings[k] # Garbage => file'.settings[k] = settings[k]
      BY <2>1 DEF Written
    <3>4. \A k \in Setting : settings[k] # Garbage => settings[k] \in Value(k)
      BY <1>0 DEF SettingsOK
    <3>5. \A l \in ListName : lists[l] \in Seq(Entry(l))
      BY <1>0 DEF ListsOK
    <3> QED
      BY <3>1, <3>2, <3>3, <3>4, <3>5 DEF SavedIsInFile
  <2> QED
    BY <1>0, <2>2, <2>3, <2>4, CallKeepsCount
<1>6. CASE SaveFails
  <2>1. Call("returned") /\ UNCHANGED <<lists, settings>>
    BY <1>6 DEF SaveFails
  <2>2. IsFile(file')
    <3>1. CASE UNCHANGED <<file, saved>>
      BY <1>0, <3>1
    <3>2. CASE file' = Emptied
      BY <3>2, FilesAreFiles
    <3>3. ASSUME NEW any \in [IntKeys -> Numbers], NEW written \in 0..3,
                 file' = [Written(any) EXCEPT
                            !.lists = [l \in ListName |-> IF Position(l) <= written THEN @[l] ELSE <<>>]]
          PROVE  IsFile(file')
      BY <3>3, WrittenIsFile, CutFileIsFile
    <3> QED
      BY <1>6, <3>1, <3>2, <3>3 DEF SaveFails
  <2>3. SavedIsInFile'
    <3>1. (UNCHANGED <<file, saved>>) \/ saved' = <<>>
      BY <1>6 DEF SaveFails
    <3> QED
      BY <3>1 DEF SavedIsInFile
  <2>4. ListsOK' /\ SettingsOK'
    BY <1>0, <2>1 DEF SettingsOK, ListsOK
  <2> QED
    BY <1>0, <2>1, <2>2, <2>3, <2>4, CallKeepsCount
<1>7. CASE Load
  <2>1. UNCHANGED <<file, saved>>
    BY <1>7 DEF Load
  <2>2. ListsOK'
    BY <1>0, <1>7, LoadKeepsLists
  <2>3. SettingsOK'
    <3>1. settings' = settings \/ settings' = Taken
      BY <1>7 DEF Load
    <3>2. DOMAIN Taken = Setting
      BY DEF Taken
    <3> QED
      BY <1>0, <3>1, <3>2, TakenType DEF SettingsOK
  <2>4. Call("returned") \/ Call("threw")
    BY <1>7 DEF Load
  <2> QED
    BY <1>0, <2>1, <2>2, <2>3, <2>4, CallKeepsCount DEF SavedIsInFile
<1>8. CASE Edit
  <2>1. Call("returned") /\ UNCHANGED <<lists, settings>> /\ saved' = <<>> /\ IsFile(file')
    BY <1>8, EditedFilesAssumption DEF Edit
  <2>2. ListsOK' /\ SettingsOK'
    BY <1>0, <2>1 DEF SettingsOK, ListsOK
  <2> QED
    BY <1>0, <2>1, <2>2, CallKeepsCount DEF SavedIsInFile
<1>9. CASE UNCHANGED vars
  BY <1>0, <1>9 DEF vars, SavedIsInFile, ListsOK, SettingsOK
<1> QED
  BY <1>1, <1>2, <1>3, <1>4, <1>5, <1>6, <1>7, <1>8, <1>9 DEF Next

(* IInv holds in every reachable state.                                    *)
LEMMA Inductive == Spec => []IInv
BY InitIsInductive, StepIsInductive, PTL DEF Spec

(* The types hold in every reachable state: whatever was edited, saved or  *)
(* half loaded, a list holds only entries of its kind.                     *)
THEOREM TypeCorrect == Spec => []TypeOK
<1>1. IInv => TypeOK
  BY DEF IInv
<1> QED
  BY <1>1, Inductive, PTL

-----------------------------------------------------------------------------
(* Loads.                                                                  *)

(* A load of a file that was saved reads every entry and every setting.    *)
LEMMA SavedFileLoads ==
    ASSUME IInv, Load, saved # <<>>
    PROVE  /\ outcome' = "returned" /\ lists' = Appended /\ settings' = Taken
           /\ \A l \in ListName : Appended[l] = lists[l] \o Trimmed(l, saved[1].lists[l])
<1>1. file.syntax /\ file.lists = saved[1].lists
  BY DEF IInv, SavedIsInFile
<1>2. ASSUME NEW l \in ListName PROVE IsReadable(l) /\ Read(l, file.lists[l]) = Trimmed(l, file.lists[l])
  <2>1. file.lists[l] \in Seq(Entry(l))
    BY <1>1 DEF IInv, SavedIsInFile
  <2>2. l \in PortLists => Entry(l) = Ports \cup {-1} /\ Unreadable \notin Ports \cup {-1}
    BY ConfigurationAssumption DEF Entry
  <2>3. IsReadable(l)
    BY <2>1, <2>2 DEF IsReadable
  <2>4. file.lists[l] \in Seq(IF l \in PortLists THEN Entry(l) \cup {Unreadable} ELSE Entry(l))
    BY DEF IInv, TypeOK, IsFile
  <2> QED
    BY <2>3, <2>4, ReadType DEF IsReadable
<1>3. \A l \in ListName : Appended[l] = lists[l] \o Trimmed(l, saved[1].lists[l])
  BY <1>1, <1>2 DEF Appended, Reached
<1> QED
  BY <1>1, <1>2, <1>3 DEF Load, Call

(* What was saved is loaded again, every list in order and every setting   *)
(* that was set, with the blanks around strings lost.                      *)
THEOREM SavedIsLoaded == Spec => LoadsWhatWasSaved
<1>1. ASSUME IInv, Load, saved # <<>>, lists = NoLists
      PROVE  LoadedAsSaved
  <2>1. /\ outcome' = "returned" /\ lists' = Appended /\ settings' = Taken
        /\ \A l \in ListName : Appended[l] = lists[l] \o Trimmed(l, saved[1].lists[l])
    BY <1>1, SavedFileLoads
  <2>2. ASSUME NEW l \in ListName PROVE Appended[l] = Trimmed(l, saved[1].lists[l])
    <3>1. Appended[l] = <<>> \o Trimmed(l, saved[1].lists[l])
      <4>1. lists[l] = <<>>
        BY <1>1 DEF NoLists
      <4> QED
        BY <2>1, <4>1
    <3>2. Trimmed(l, saved[1].lists[l]) \in Seq(Entry(l))
      <4>1. /\ file.lists = saved[1].lists /\ saved[1].lists[l] \in Seq(Entry(l))
            /\ file.lists[l] \in Seq(IF l \in PortLists THEN Entry(l) \cup {Unreadable} ELSE Entry(l))
        BY <1>1 DEF IInv, TypeOK, IsFile, SavedIsInFile
      <4>2. l \in PortLists => \A i \in 1..Len(file.lists[l]) : file.lists[l][i] # Unreadable
        <5>1. l \in PortLists => Unreadable \notin Entry(l)
          BY ConfigurationAssumption DEF Entry
        <5> QED
          BY <4>1, <5>1
      <4> QED
        BY <4>1, <4>2, ReadType
    <3> QED
      BY <3>1, <3>2, ConcatEmptySeq
  <2>3. lists' = [l \in ListName |-> Trimmed(l, saved[1].lists[l])]
    BY <2>1, <2>2 DEF Appended
  <2>4. ASSUME NEW k \in Setting, saved[1].settings[k] # Garbage
        PROVE  Taken[k] = IF k \in StringKeys THEN Trim[saved[1].settings[k]] ELSE saved[1].settings[k]
    <3>1. file.settings[k] = saved[1].settings[k] /\ saved[1].settings[k] \in Value(k)
      BY <1>1, <2>4 DEF IInv, SavedIsInFile
    <3>2. file.settings[k] \notin {Missing, Unreadable}
      BY <3>1, ConfigurationAssumption DEF Value
    <3> QED
      BY <3>1, <3>2 DEF Taken
  <2> QED
    BY <2>1, <2>3, <2>4 DEF LoadedAsSaved
<1>2. IInv /\ [Next]_vars => [LoadedAsSaved]_vars
  BY <1>1 DEF LoadedAsSaved
<1> QED
  BY <1>2, Inductive, PTL DEF Spec, LoadsWhatWasSaved

(* Two copies of a list hold what one holds, and begin the same.           *)
LEMMA Doubled ==
    ASSUME NEW S, NEW s \in Seq(S)
    PROVE  /\ s \o s = <<>> <=> s = <<>>
           /\ s # <<>> => (s \o s)[1] = s[1]
           /\ \A x : Contains(s \o s, x) <=> Contains(s, x)
<1>1. /\ Len(s) \in Nat /\ Len(s \o s) = Len(s) + Len(s) /\ s \o s \in Seq(S)
      /\ \A i \in 1..Len(s) + Len(s) : (s \o s)[i] = IF i <= Len(s) THEN s[i] ELSE s[i - Len(s)]
  BY ConcatProperties, LenProperties
<1>2. s \o s = <<>> <=> s = <<>>
  BY <1>1
<1>3. s # <<>> => (s \o s)[1] = s[1]
  BY <1>1
<1>4. ASSUME NEW x PROVE Contains(s \o s, x) <=> Contains(s, x)
  <2>1. ASSUME NEW i \in 1..Len(s \o s), (s \o s)[i] = x PROVE Contains(s, x)
    <3>1. CASE i <= Len(s)
      BY <1>1, <2>1, <3>1 DEF Contains
    <3>2. CASE i > Len(s)
      <4>1. i - Len(s) \in 1..Len(s) /\ s[i - Len(s)] = x
        BY <1>1, <2>1, <3>2
      <4> QED
        BY <4>1 DEF Contains
    <3> QED
      BY <1>1, <3>1, <3>2
  <2>2. ASSUME NEW i \in 1..Len(s), s[i] = x PROVE Contains(s \o s, x)
    <3>1. i \in 1..Len(s \o s) /\ (s \o s)[i] = x
      BY <1>1, <2>2
    <3> QED
      BY <3>1 DEF Contains
  <2> QED
    BY <2>1, <2>2 DEF Contains
<1> QED
  BY <1>2, <1>3, <1>4

(* A second load of what was saved decides every request as before.        *)
THEOREM ReloadIsHarmless == Spec => ReloadDecidesTheSame
<1>1. ASSUME IInv, Load, saved # <<>>, lists = saved[1].lists,
             \A l \in ListName : Trimmed(l, lists[l]) = lists[l], NEW r \in Destinations
      PROVE  Filter(lists', r) = Filter(lists, r)
  <2>1. ASSUME NEW l \in ListName PROVE lists'[l] = lists[l] \o lists[l] /\ lists[l] \in Seq(Entry(l))
    BY <1>1, SavedFileLoads DEF IInv, TypeOK
  <2>2. ASSUME NEW l \in ListName
        PROVE  /\ lists'[l] = <<>> <=> lists[l] = <<>>
               /\ lists[l] # <<>> => lists'[l][1] = lists[l][1]
               /\ \A x : Contains(lists'[l], x) <=> Contains(lists[l], x)
    BY <2>1, Doubled
  <2>3. {"allowedIPs", "blockedIPs", "allowedPorts", "blockedPorts"} \subseteq ListName
    BY DEF ListName, AllowLists, BlockLists
  <2>4. CASE lists.allowedIPs = <<>> \/ lists.allowedPorts = <<>>
    BY <2>2, <2>3, <2>4 DEF Filter
  <2>5. CASE lists.allowedIPs # <<>> /\ lists.allowedPorts # <<>>
    <3>1. /\ AnySite(lists') = AnySite(lists) /\ AnyPort(lists') = AnyPort(lists)
          /\ ~(lists'.allowedIPs = <<>> \/ lists'.allowedPorts = <<>>)
      BY <2>2, <2>3, <2>5 DEF AnySite, AnyPort
    <3>2. Blocked(lists', r) = Blocked(lists, r)
      BY <2>2, <2>3, <3>1 DEF Blocked
    <3>3. Allowed(lists', r) = Allowed(lists, r)
      BY <2>2, <2>3, <3>1 DEF Allowed
    <3> QED
      BY <2>5, <3>1, <3>2, <3>3 DEF Filter
  <2> QED
    BY <2>4, <2>5
<1>2. IInv /\ [Next]_vars => [SameDecisions]_vars
  BY <1>1 DEF SameDecisions
<1> QED
  BY <1>2, Inductive, PTL DEF Spec, ReloadDecidesTheSame

(* A load that throws has appended what comes before the entry it could    *)
(* not read, and nothing else.                                             *)
THEOREM FailedLoadIsBounded == Spec => FailedLoadOnlyAppends
<1>1. ASSUME IInv, Load, outcome' = "threw"
      PROVE  OnlyAppended
  <2>1. CASE UNCHANGED <<lists, settings>>
    <3>1. ASSUME NEW l \in ListName PROVE IsPrefix(lists[l], lists'[l])
      <4>1. lists[l] \in Seq(Entry(l))
        BY <1>1 DEF IInv, TypeOK
      <4> QED
        BY <2>1, <4>1, LenProperties DEF IsPrefix
    <3> QED
      BY <2>1, <3>1 DEF OnlyAppended
  <2>2. CASE lists' = Appended /\ UNCHANGED settings
    <3>1. ASSUME NEW l \in ListName
          PROVE  /\ lists[l] \in Seq(Entry(l)) /\ Read(l, file.lists[l]) \in Seq(Entry(l))
                 /\ IsReadable(l) => Read(l, file.lists[l]) = Trimmed(l, file.lists[l])
      BY <1>1, ReadType DEF IInv, TypeOK, IsFile, IsReadable
    <3>2. ASSUME NEW l \in ListName PROVE IsPrefix(lists[l], lists'[l])
      <4>1. CASE lists'[l] = lists[l]
        BY <3>1, <4>1, LenProperties DEF IsPrefix
      <4>2. CASE lists'[l] = lists[l] \o Read(l, file.lists[l])
        <5> DEFINE t == Read(l, file.lists[l])
        <5>1. lists[l] \in Seq(Entry(l)) /\ t \in Seq(Entry(l))
          BY <3>1
        <5> HIDE DEF t
        <5>2. Len(lists[l]) \in Nat /\ Len(t) \in Nat /\ Len(lists[l] \o t) = Len(lists[l]) + Len(t)
          BY <5>1, ConcatProperties, LenProperties
        <5>3. SubSeq(lists[l] \o t, 1, Len(lists[l])) = lists[l] /\ SubSeq(lists[l], 1, Len(lists[l])) = lists[l]
          BY <5>1, <5>2, SubSeqOfConcat1, SubSeqFull, LenProperties
        <5>4. IsPrefix(lists[l], lists[l] \o t)
          BY <5>2, <5>3 DEF IsPrefix
        <5> QED
          BY <4>2, <5>4 DEF t
      <4> QED
        BY <2>2, <4>1, <4>2 DEF Appended
    <3>3. ASSUME NEW l \in ListName, NEW m \in ListName,
                 Position(l) < Position(m), lists'[m] # lists[m]
          PROVE  lists'[l] = lists[l] \o Trimmed(l, file.lists[l])
      <4>1. Reached(m)
        BY <2>2, <3>3 DEF Appended
      <4>2. \A n \in ListName : Position(n) \in Int
        BY DEF Position
      <4>3. Reached(l) /\ IsReadable(l)
        BY <3>3, <4>1, <4>2 DEF Reached
      <4> QED
        BY <2>2, <3>1, <4>3 DEF Appended
    <3> QED
      BY <2>2, <3>2, <3>3 DEF OnlyAppended
  <2> QED
    BY <1>1, <2>1, <2>2 DEF Load, Call
<1>2. IInv /\ [Next]_vars => [OnlyAppended]_vars
  BY <1>1 DEF OnlyAppended
<1> QED
  BY <1>2, Inductive, PTL DEF Spec, FailedLoadOnlyAppends

-----------------------------------------------------------------------------
(* Edits.                                                                  *)

(* The lists c let through no more than d: whatever c allows d allows, and *)
(* whatever d blocks c blocks.                                             *)
Narrower(c, d) ==
    /\ c.allowedIPs # <<>> => d.allowedIPs # <<>>
    /\ c.allowedPorts # <<>> => d.allowedPorts # <<>>
    /\ StartsWith(c.allowedIPs, "all") => StartsWith(d.allowedIPs, "all")
    /\ StartsWith(c.allowedPorts, -1) => StartsWith(d.allowedPorts, -1)
    /\ \A l \in AllowLists : \A x : Contains(c[l], x) => Contains(d[l], x)
    /\ \A l \in BlockLists : \A x : Contains(d[l], x) => Contains(c[l], x)

LEMMA NarrowerAdmitsLess ==
    ASSUME NEW c, NEW d, Narrower(c, d)
    PROVE  Admitted(c) \subseteq Admitted(d)
<1> SUFFICES ASSUME NEW r \in Destinations, Filter(c, r) = Connect PROVE Filter(d, r) = Connect
  BY DEF Admitted
<1>1. c.allowedIPs # <<>> /\ c.allowedPorts # <<>> /\ ~Blocked(c, r) /\ Allowed(c, r)
  BY DEF Filter, Connect, Refuse, Crash
<1>2. d.allowedIPs # <<>> /\ d.allowedPorts # <<>>
  BY <1>1 DEF Narrower
<1>3. (AnySite(c) => AnySite(d)) /\ (AnyPort(c) => AnyPort(d))
  BY <1>1, <1>2 DEF Narrower, StartsWith, AnySite, AnyPort
<1>4. /\ Contains(c.allowedIPs, r.address) => Contains(d.allowedIPs, r.address)
      /\ Contains(c.allowedPorts, r.port) => Contains(d.allowedPorts, r.port)
      /\ Contains(d.blockedIPs, r.address) => Contains(c.blockedIPs, r.address)
      /\ Contains(d.blockedPorts, r.port) => Contains(c.blockedPorts, r.port)
  BY DEF Narrower, AllowLists, BlockLists
<1>5. Allowed(d, r)
  BY <1>1, <1>3, <1>4 DEF Allowed
<1>6. ~Blocked(d, r)
  BY <1>1, <1>3, <1>4 DEF Blocked
<1> QED
  BY <1>2, <1>5, <1>6 DEF Filter

(* What an edit does to a list.                                            *)
LEMMA AddGrows ==
    ASSUME ListsOK, NEW l \in ListName, NEW x \in Entry(l), Add(l, x)
    PROVE  /\ \A m \in ListName : m # l => lists'[m] = lists[m]
           /\ \A y : Contains(lists[l], y) => Contains(lists'[l], y)
           /\ lists'[l] # <<>>
           /\ lists[l] # <<>> => lists'[l][1] = lists[l][1]
<1>1. lists[l] \in Seq(Entry(l)) /\ lists' = [lists EXCEPT ![l] = Append(@, x)]
  BY DEF ListsOK, Add
<1>2. lists'[l] = Append(lists[l], x) /\ \A m \in ListName : m # l => lists'[m] = lists[m]
  BY <1>1 DEF ListsOK
<1>3. /\ Len(lists[l]) \in Nat /\ Len(lists'[l]) = Len(lists[l]) + 1
      /\ \A i \in 1..Len(lists[l]) : lists'[l][i] = lists[l][i]
  BY <1>1, <1>2, AppendProperties, LenProperties
<1>4. ASSUME NEW y, Contains(lists[l], y) PROVE Contains(lists'[l], y)
  BY <1>3, <1>4 DEF Contains
<1>5. lists'[l] # <<>> /\ (lists[l] # <<>> => lists'[l][1] = lists[l][1])
  <2>1. Len(lists[l]) = 0 <=> lists[l] = <<>>
    BY <1>1, EmptySeq
  <2>2. lists'[l] # <<>>
    BY <1>1, <1>2, AppendProperties
  <2> QED
    BY <1>3, <2>1, <2>2
<1> QED
  BY <1>2, <1>4, <1>5

LEMMA EraseShrinks ==
    ASSUME ListsOK, NEW l \in ListName, NEW x \in Entry(l), Erase(l, x)
    PROVE  /\ \A m \in ListName : m # l => lists'[m] = lists[m]
           /\ \A y : Contains(lists'[l], y) => Contains(lists[l], y)
           /\ lists'[l] # <<>> => lists[l] # <<>>
<1> DEFINE kept == {i \in 1..Len(lists[l]) : lists[l][i] # x}
<1>1. PICK n \in 0..Len(lists[l]) : \E at \in [1..n -> kept] :
         lists' = [lists EXCEPT ![l] = [i \in 1..n |-> lists[l][at[i]]]]
  BY DEF Erase
<1>2. PICK at \in [1..n -> kept] :
         lists' = [lists EXCEPT ![l] = [i \in 1..n |-> lists[l][at[i]]]]
  BY <1>1
<1>3. lists[l] \in Seq(Entry(l)) /\ Len(lists[l]) \in Nat /\ n \in Nat
  BY LenProperties DEF ListsOK
<1>4. /\ lists'[l] = [i \in 1..n |-> lists[l][at[i]]]
      /\ \A m \in ListName : m # l => lists'[m] = lists[m]
  BY <1>2 DEF ListsOK
<1>5. Len(lists'[l]) = n
  BY <1>3, <1>4
<1>6. ASSUME NEW y, Contains(lists'[l], y) PROVE Contains(lists[l], y)
  <2>1. PICK i \in 1..n : lists'[l][i] = y
    BY <1>5, <1>6 DEF Contains
  <2>2. at[i] \in 1..Len(lists[l]) /\ lists[l][at[i]] = y
    BY <1>4, <2>1
  <2> QED
    BY <2>2 DEF Contains
<1>7. lists[l] = <<>> => lists'[l] = <<>>
  BY <1>3, <1>4
<1> QED
  BY <1>4, <1>6, <1>7

(* Allowing and unblocking admit more; blocking and disallowing admit      *)
(* less, unless a wildcard becomes the first of its list.                  *)
THEOREM EditsDoAsTheySay == Spec => EditsAreMonotone
<1>0. /\ AllowLists = {"allowedIPs", "allowedPorts"} /\ BlockLists = {"blockedIPs", "blockedPorts"}
      /\ ListName = AllowLists \cup BlockLists
  BY DEF AllowLists, BlockLists, ListName
<1>1. ASSUME ListsOK, NEW l \in AllowLists, NEW x \in Entry(l), Add(l, x)
      PROVE  Narrower(lists, lists')
  BY <1>0, <1>1, AddGrows DEF Narrower, StartsWith
<1>2. ASSUME ListsOK, NEW l \in BlockLists, NEW x \in Entry(l), Erase(l, x)
      PROVE  Narrower(lists, lists')
  BY <1>0, <1>2, EraseShrinks DEF Narrower, StartsWith
<1>3. ASSUME ListsOK, NEW l \in BlockLists, NEW x \in Entry(l), Add(l, x)
      PROVE  Narrower(lists', lists)
  BY <1>0, <1>3, AddGrows DEF Narrower, StartsWith
<1>4. ASSUME ListsOK, NEW l \in AllowLists, NEW x \in Entry(l), Erase(l, x), ~Promoted
      PROVE  Narrower(lists', lists)
  BY <1>0, <1>4, EraseShrinks DEF Narrower, Promoted
<1>5. IInv => ListsOK
  BY DEF IInv, TypeOK, ListsOK
<1>6. ASSUME IInv
      PROVE  /\ MoreAdmitted => Admitted(lists) \subseteq Admitted(lists')
             /\ LessAdmitted => (Admitted(lists') \subseteq Admitted(lists) \/ Promoted)
  <2>1. MoreAdmitted => Narrower(lists, lists')
    BY <1>1, <1>2, <1>5, <1>6 DEF MoreAdmitted
  <2>2. LessAdmitted => Narrower(lists', lists) \/ Promoted
    BY <1>3, <1>4, <1>5, <1>6 DEF LessAdmitted
  <2> QED
    BY <2>1, <2>2, NarrowerAdmitsLess
<1>7. IInv /\ [Next]_vars =>
        [ /\ MoreAdmitted => Admitted(lists) \subseteq Admitted(lists')
          /\ LessAdmitted => (Admitted(lists') \subseteq Admitted(lists) \/ Promoted) ]_vars
  BY <1>6
<1> QED
  BY <1>7, Inductive, PTL DEF Spec, EditsAreMonotone
=============================================================================
