-------------------------- MODULE MCProxyConfiguration --------------------------
(***************************************************************************)
(* ProxyConfiguration with one site, spelt with and without a blank before *)
(* it, one port, one setting of either type, and the files an              *)
(* administrator may write.                                                *)
(***************************************************************************)
EXTENDS ProxyConfiguration

MCSites == {"site", " site"}
MCWords == {"", "site", " site"}
MCTrim  == [s \in MCSites \cup {"", "all"} |-> IF s = " site" THEN "site" ELSE s]

MCFile(allowedIPs, blockedIPs, allowedPorts, blockedPorts, string, int) ==
    [syntax |-> TRUE,
     lists |-> [l \in ListName |-> CASE l = "allowedIPs" -> allowedIPs
                                     [] l = "blockedIPs" -> blockedIPs
                                     [] l = "allowedPorts" -> allowedPorts
                                     [] OTHER -> blockedPorts],
     settings |-> [k \in Setting |-> IF k \in StringKeys THEN string ELSE int]]

(* The example of the README, the same with an entry in either port list   *)
(* that is no number, an empty file and none.                              *)
MCEditedFiles ==
    {MCFile(<<"all">>, <<"site">>, <<-1>>, <<80>>, " site", 1),
     MCFile(<<"site">>, <<>>, <<80, Unreadable, 80>>, <<80>>, " site", 1),
     MCFile(<<"site">>, <<"site">>, <<80>>, <<Unreadable>>, "", Unreadable),
     MCFile(<<>>, <<>>, <<>>, <<>>, Missing, Unreadable),
     NoFile}
=============================================================================
