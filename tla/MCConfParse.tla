---------------------------- MODULE MCConfParse ----------------------------
(***************************************************************************)
(* Instances of ConfParse for TLC.  Each run picks the line alphabets that *)
(* exercise the question it asks; values are short concrete strings.       *)
(***************************************************************************)
EXTENDS ConfParse

MacA == "00:0c:29:aa:bb:01"
MacB == "00:0c:29:aa:bb:02"

MCWord == {"", "block", "drop", "allow", "log", "ulog", "to", "foo",
           "tcp", "port", "80", "http", "10.0.0.0/8"}
MCProtoPrefixed == {"tcp"}
MCPortPrefixed == {"port"}
MCDigits == {"", "80"}
MCMaskChars == {"", "80", "10.0.0.0/8"}

MCValue == {"eth0", "80", "x", "yes", "h1", "/wifidog/", ""}
MCName == {"global", "known"}
(* A token with trailing garbage normalises to its hex prefix; a token    *)
(* that does not start with a hex digit or ':' normalises to nothing.     *)
MCToken == {MacA, MacA \o "-x", MacB, "zz", ""}
MCMac == {MacA, MacB}
MCNormMac == [t \in MCToken |-> CASE t \in {MacA, MacA \o "-x"} -> MacA
                                  [] t = MacB -> MacB
                                  [] OTHER -> NULL]
MCScanInt == [v \in MCValue |-> IF v = "80" THEN 80 ELSE NULL]
MCIP == {"10.1.1.1"}

L(k, v) == [kw |-> k, val |-> v]

(* Rulesets: blocks of either name, reopened, with valid and bad rules.   *)
RulesetTop == {L("firewallruleset", "global"), L("firewallruleset", "known"),
               L("gatewayinterface", "eth0")}
RulesetBody == {L("firewallrule", <<"allow", "tcp", "port", "80">>),
                L("firewallrule", <<"drop", "to", "10.0.0.0/8">>),
                L("firewallrule", <<"block">>),
                L("firewallrule", <<"foo", "tcp">>),
                L("", <<>>), L("gatewayinterface", "eth0")}

(* Start-up: server blocks, the fields the validator checks, and the      *)
(* lines the dispatcher skips, ignores or rejects.                        *)
StartupTop == {L("gatewayinterface", "eth0"), L("httpdusername", "x"),
               L("httpdpassword", "x"), L("authserver", "x"),
               L("portalserver", "x"), L("platformserver", "x"),
               L("logserver", "x"), L("daemon", "yes"), L("gatewayport", "80"),
               L("gatewayport", "x"), L("bogus", "x"), L("#", "x"),
               L("debuglevel", "80"), L("gatewayinterface", NULL)}
StartupServer == {L("hostname", "h1"), L("hostname", "x"), L("httpport", "80"), L("sslavailable", "yes"),
                  L("sslavailable", "x"),
                  L("path", "/wifidog/"), L("", ""), L("gatewayinterface", "eth0")}

(* Trusted MAC lists. *)
TrustedTop == {L("trustedmaclist", [word |-> <<MacA, MacB>>, rest |-> <<>>]),
               L("trustedmaclist", [word |-> <<MacB>>, rest |-> <<>>]),
               L("trustedmaclist", [word |-> <<MacA \o "-x", "">>, rest |-> <<MacB>>]),
               L("trustedmaclist", [word |-> <<"zz">>, rest |-> <<>>])}

NoLines == {}
=============================================================================
