--------------------------- MODULE ProxyConfiguration ---------------------------
(***************************************************************************)
(* ProxyConfiguration: an object with four lists and a number of single    *)
(* settings, which its owner edits, saves to an INI file and loads from    *)
(* one, and the file, which an administrator may edit in between.  The     *)
(* program is sequential: one call is one action.                          *)
(*                                                                         *)
(* An INI file is the texts of each section's entries, in order, and the   *)
(* text of each top-level key.  A text stands for the value it spells, or  *)
(* is Unreadable where a number is expected.  A file that does not exist   *)
(* or has no INI syntax has syntax = FALSE.                                *)
(***************************************************************************)
EXTENDS SocksRequest

CONSTANTS Sites, Ports,          \* what the lists may hold, besides the wildcards
          StringKeys, IntKeys,   \* the single settings: std::string and int members
          Words, Numbers,        \* what they may hold
          Trim,                  \* a string without the blanks around it
          Missing, Unreadable,   \* no text, and a text that is no number
          Garbage,               \* the value of an int member nothing was assigned to
          EditedFiles,           \* files an administrator may write
          MaxCalls               \* bound: calls and edits

AllowLists == {"allowedIPs", "allowedPorts"}
BlockLists == {"blockedIPs", "blockedPorts"}
PortLists  == {"allowedPorts", "blockedPorts"}
ListName   == AllowLists \cup BlockLists
Entry(l)   == IF l \in PortLists THEN Ports \cup {-1} ELSE Sites \cup {"all"}

Setting  == StringKeys \cup IntKeys
Value(k) == IF k \in StringKeys THEN Words ELSE Numbers

Strings == Sites \cup Words \cup {"all"}

ASSUME ConfigurationAssumption ==
    /\ "" \in Words /\ Numbers # {}
    /\ StringKeys \cap IntKeys = {}
    /\ /\ Trim \in [Strings -> Strings]
       /\ \A w \in Words : Trim[w] \in Words
       /\ \A s \in Sites : Trim[s] \in Sites \cup {"all"}
       /\ Trim["all"] = "all"
    /\ {Missing, Garbage, Unreadable} \cap Words = {}
    /\ {Missing, Garbage, Unreadable} \cap Numbers = {}
    /\ Unreadable \notin Ports \cup {-1}
    /\ MaxCalls \in Nat

(* Every text is a string; a number is expected of ports and int members.  *)
IsFile(f) ==
    /\ DOMAIN f = {"syntax", "lists", "settings"} /\ f.syntax \in BOOLEAN
    /\ DOMAIN f.lists = ListName /\ DOMAIN f.settings = Setting
    /\ \A l \in ListName :
          f.lists[l] \in Seq(IF l \in PortLists THEN Entry(l) \cup {Unreadable} ELSE Entry(l))
    /\ \A k \in Setting :
          f.settings[k] \in Value(k) \cup (IF k \in IntKeys THEN {Missing, Unreadable} ELSE {Missing})

ASSUME EditedFilesAssumption == \A f \in EditedFiles : IsFile(f)

NoLists == [l \in ListName |-> <<>>]
NoTexts == [k \in Setting |-> Missing]
Emptied == [syntax |-> TRUE, lists |-> NoLists, settings |-> NoTexts]
NoFile  == [syntax |-> FALSE, lists |-> NoLists, settings |-> NoTexts]

VARIABLES
    lists,     \* the four vectors
    settings,  \* the single members
    file,      \* the INI file
    saved,     \* history: the object the file was saved from, as a sequence of
               \* one; empty if the file has another origin
    outcome,   \* how the last call ended: "returned" or "threw"
    calls      \* calls and edits so far

vars == <<lists, settings, file, saved, outcome, calls>>

Call(how) == calls < MaxCalls /\ calls' = calls + 1 /\ outcome' = how

-----------------------------------------------------------------------------
(* A new object: its vectors and strings are empty, its ints are not set.  *)
FreshSettings == [k \in Setting |-> IF k \in StringKeys THEN "" ELSE Garbage]

New == /\ Call("returned")
       /\ lists' = NoLists
       /\ settings' = FreshSettings
       /\ UNCHANGED <<file, saved>>

AddFirst(l, x) ==
    /\ Call("returned")
    /\ lists' = [lists EXCEPT ![l] = <<x>> \o @]
    /\ UNCHANGED <<settings, file, saved>>

(* addAllowedIP, addBlockedIP, addAllowedPort, addBlockedPort.             *)
Add(l, x) ==
    /\ Call("returned")
    /\ lists' = [lists EXCEPT ![l] = Append(@, x)]
    /\ UNCHANGED <<settings, file, saved>>

(* removeAllowedIP and the other three: std::erase_if keeps the entries    *)
(* other than x, in their order.                                           *)
Erase(l, x) ==
    /\ Call("returned")
    /\ LET kept == {i \in 1..Len(lists[l]) : lists[l][i] # x}
       IN  \E n \in 0..Len(lists[l]) : \E at \in [1..n -> kept] :
              /\ kept = {at[i] : i \in 1..n}
              /\ \A i, j \in 1..n : i < j => at[i] < at[j]
              /\ lists' = [lists EXCEPT ![l] = [i \in 1..n |-> lists[l][at[i]]]]
    /\ UNCHANGED <<settings, file, saved>>

(* setProxyServerIp .. setAuthenticationMethod.                            *)
Set(k, v) ==
    /\ Call("returned")
    /\ settings' = [settings EXCEPT ![k] = v]
    /\ UNCHANGED <<lists, file, saved>>

-----------------------------------------------------------------------------
WrittenFromOne(any) ==
    [syntax |-> TRUE, lists |-> [l \in ListName |-> SubSeq(lists[l], 2, Len(lists[l]))],
     settings |-> [k \in Setting |-> IF settings[k] = Garbage THEN any[k] ELSE settings[k]]]

(* What write_ini makes of the tree: every key with the text of its value; *)
(* an int that was never set has the text of some number.                  *)
Written(any) ==
    [syntax |-> TRUE, lists |-> lists,
     settings |-> [k \in Setting |-> IF settings[k] = Garbage THEN any[k] ELSE settings[k]]]

Save == /\ Call("returned")
        /\ \E any \in [IntKeys -> Numbers] : file' = Written(any)
        /\ saved' = <<[lists |-> lists, settings |-> settings]>>
        /\ UNCHANGED <<lists, settings>>

(* An error of write_ini is printed and the call returns all the same.     *)
(* The file could not be opened, or it was emptied and then written in     *)
(* part: top-level keys come before sections, so of the lists the last     *)
(* were lost.                                                              *)
Position(l) == CASE l = "allowedIPs" -> 1 [] l = "blockedIPs" -> 2
                 [] l = "allowedPorts" -> 3 [] OTHER -> 4

SaveFails ==
    /\ Call("returned")
    /\ \/ UNCHANGED <<file, saved>>
       \/ file' = Emptied /\ saved' = <<>>
       \/ /\ \E any \in [IntKeys -> Numbers] : \E written \in 0..3 :
                 file' = [Written(any) EXCEPT
                            !.lists = [l \in ListName |-> IF Position(l) <= written THEN @[l] ELSE <<>>]]
          /\ saved' = <<>>
    /\ UNCHANGED <<lists, settings>>

-----------------------------------------------------------------------------
IsReadable(l) == l \in PortLists => \A i \in 1..Len(file.lists[l]) : file.lists[l][i] # Unreadable

(* The entries before the first that get_value<int> cannot read.           *)
Readable(s) == SubSeq(s, 1, CHOOSE n \in 0..Len(s) :
                   /\ \A i \in 1..n : s[i] # Unreadable
                   /\ n < Len(s) => s[n + 1] = Unreadable)

(* What a load takes of a section, with every text trimmed by read_ini.    *)
Read(l, s) == IF l \in PortLists THEN Readable(s) ELSE [i \in 1..Len(s) |-> Trim[s[i]]]

(* A section is reached if those before it could be read.                  *)
Reached(l) == \A m \in ListName : Position(m) < Position(l) => IsReadable(m)

AppendedCrossed ==
    [l \in ListName |-> lists[l] \o IF l = "blockedIPs" THEN file.lists["allowedIPs"] ELSE file.lists[l]]

(* push_back of the entries: what the vectors held stays in front.         *)
Appended == [l \in ListName |->
               IF Reached(l) THEN lists[l] \o Read(l, file.lists[l]) ELSE lists[l]]

(* get_optional skips a key that is missing or, of an int, no number.      *)
Taken == [k \in Setting |->
            CASE file.settings[k] \in {Missing, Unreadable} -> settings[k]
              [] OTHER -> IF k \in StringKeys THEN Trim[file.settings[k]] ELSE file.settings[k]]

LoadSettingsFirst ==
    \/ ~file.syntax /\ Call("threw") /\ UNCHANGED <<lists, settings, file, saved>>
    \/ /\ file.syntax
       /\ settings' = Taken /\ lists' = Appended
       /\ Call(IF \A l \in ListName : IsReadable(l) THEN "returned" ELSE "threw")
       /\ UNCHANGED <<file, saved>>

(* loadConfigFromIni: the lists, then the settings; the first number of a  *)
(* list that cannot be read ends it by an exception.                       *)
Load ==
    \/ /\ ~file.syntax
       /\ Call("threw")
       /\ UNCHANGED <<lists, settings, file, saved>>
    \/ /\ file.syntax
       /\ lists' = Appended
       /\ IF \A l \in ListName : IsReadable(l)
          THEN Call("returned") /\ settings' = Taken
          ELSE Call("threw") /\ UNCHANGED settings
       /\ UNCHANGED <<file, saved>>

(* The administrator.                                                      *)
Edit == /\ Call("returned")
        /\ file' \in EditedFiles
        /\ saved' = <<>>
        /\ UNCHANGED <<lists, settings>>

-----------------------------------------------------------------------------
Init == /\ lists = NoLists
        /\ settings = FreshSettings
        /\ file = NoFile
        /\ saved = <<>>
        /\ outcome = "returned"
        /\ calls = 0

Next == \/ New \/ Save \/ SaveFails \/ Load \/ Edit
        \/ \E l \in ListName : \E x \in Entry(l) : Add(l, x) \/ Erase(l, x)
        \/ \E k \in Setting : \E v \in Value(k) : Set(k, v)

Spec == Init /\ [][Next]_vars
-----------------------------------------------------------------------------
(* Properties.                                                             *)

(* The types of the variables; in particular, no exception of a load       *)
(* leaves an entry in a port list that is no number (loadConfigFromIni).   *)
TypeOK ==
    /\ DOMAIN lists = ListName /\ \A l \in ListName : lists[l] \in Seq(Entry(l))
    /\ DOMAIN settings = Setting
    /\ \A k \in Setting : settings[k] \in Value(k) \cup (IF k \in IntKeys THEN {Garbage} ELSE {})
    /\ IsFile(file)
    /\ outcome \in {"returned", "threw"}
    /\ calls \in 0..MaxCalls

(* A list without the blanks around its strings.                           *)
Trimmed(l, s) == IF l \in PortLists THEN s ELSE [i \in 1..Len(s) |-> Trim[s[i]]]

(* A load into a new object of a file nobody has edited reads every list   *)
(* and every setting that was set, with the blanks around strings lost.    *)
LoadedAsSaved ==
    Load /\ saved # <<>> /\ lists = NoLists =>
        /\ outcome' = "returned"
        /\ lists' = [l \in ListName |-> Trimmed(l, saved[1].lists[l])]
        /\ \A k \in Setting : saved[1].settings[k] # Garbage =>
               settings'[k] = IF k \in StringKeys THEN Trim[saved[1].settings[k]]
                                                  ELSE saved[1].settings[k]

(* What was saved is loaded again, every list in its order                 *)
(* (saveConfigToIni, loadConfigFromIni).                                   *)
LoadsWhatWasSaved == [][LoadedAsSaved]_vars

(* The requests whose destination the lists decide on.                     *)
Destinations == [address : Sites, port : Ports]
Admitted(cfg) == {r \in Destinations : Filter(cfg, r) = Connect}

SameDecisions ==
    Load /\ saved # <<>> /\ lists = saved[1].lists
         /\ (\A l \in ListName : Trimmed(l, lists[l]) = lists[l]) =>
        \A r \in Destinations : Filter(lists', r) = Filter(lists, r)

(* loadConfigFromIni appends: a second load doubles every list.  No        *)
(* request is decided otherwise for it, unless an entry has blanks around  *)
(* it (loadConfigFromIni, handle_socks_request).                           *)
ReloadDecidesTheSame == [][SameDecisions]_vars

OnlyAppended ==
    Load /\ outcome' = "threw" =>
        /\ settings' = settings
        /\ \A l \in ListName : IsPrefix(lists[l], lists'[l])
        /\ \A l, m \in ListName :
              Position(l) < Position(m) /\ lists'[m] # lists[m] =>
                  lists'[l] = lists[l] \o Trimmed(l, file.lists[l])

(* A load that throws has changed no setting, nothing that was in a list,  *)
(* and no list behind the one with the entry that it could not read        *)
(* (loadConfigFromIni).                                                    *)
FailedLoadOnlyAppends == [][OnlyAppended]_vars

StartsWith(s, x) == s # <<>> /\ s[1] = x

Promoted == \/ StartsWith(lists'.allowedIPs, "all") /\ ~StartsWith(lists.allowedIPs, "all")
            \/ StartsWith(lists'.allowedPorts, -1) /\ ~StartsWith(lists.allowedPorts, -1)

MoreAdmitted == \/ \E l \in AllowLists : \E x \in Entry(l) : Add(l, x)
                \/ \E l \in BlockLists : \E x \in Entry(l) : Erase(l, x)
LessAdmitted == \/ \E l \in BlockLists : \E x \in Entry(l) : Add(l, x)
                \/ \E l \in AllowLists : \E x \in Entry(l) : Erase(l, x)

(* An edit of the lists works the way its name says: to allow more turns   *)
(* nobody away and to block less neither, to block more or to allow less   *)
(* lets nobody in, unless the removal of the entries before it makes a     *)
(* wildcard the first and thereby effective (the eight add and remove      *)
(* functions, handle_socks_request).                                       *)
EditsAreMonotone ==
    [][ /\ MoreAdmitted => Admitted(lists) \subseteq Admitted(lists')
        /\ LessAdmitted => (Admitted(lists') \subseteq Admitted(lists) \/ Promoted) ]_vars
=============================================================================
