# A TLA+ model of the wifidog configuration module (`src/src/conf.c`)

This directory holds TLA+ specifications of `conf.c`, the TLC configurations
that model-check them, and TLAPS proofs about them. The source of truth is the
code. Where the code and `spec.md` disagree, the disagreement is a run that
expects a violation, listed under "findings" in `PROJECT.json`.

## The system

`conf.c` owns the gateway's singleton configuration record. It has two phases.

1. **Parsing.** This phase is single-threaded and runs once at startup.
   - `config_init()` (lines 172-249) sets the defaults. These include a default
     log server and, through `config_update_server_init()` (252-276), a default
     update server.
   - `config_read()` (780-939) reads the file line by line. The keyword is
     looked up in `keywords[]` by `config_parse_token()` (109-152, 290-302).
   - The line's value then goes to one of these:
     - a string or int field of the configuration;
     - a nested block parser:
       - `parse_server()` (308-520) handles `AuthServer`, `PortalServer` and
         `PlatformServer` blocks;
       - `parse_firewall_ruleset()` (552-612) handles `FirewallRuleSet`
         blocks, calling the rule mini-parser `_parse_firewall_rule()`
         (620-757) on each line;
     - the token loop `parse_trusted_mac_list()` (963-1015).
   - An unknown keyword, at top level or inside a block, calls `exit(-1)`.
   - `config_validate()` (1023-1044) then checks that the interface and an
     auth server are present.
   - `config_init_override()` (282-285) gives an unset daemon flag its default.
2. **Run time.** Several threads share the record.
   - `get_auth_server()` (1050-1055) reads the head of the auth-server list
     without a lock.
   - `mark_auth_server_bad()` (1095-1111) is called under the configuration
     lock. It is meant to move the current head to the tail of the list.

## Modules

| module | models | state / actions |
|---|---|---|
| `FirewallRule` | `_parse_firewall_rule()` and `TO_NEXT_WORD` | A pure operator `ParseFirewallRule(words)` gives `[code, rule]`. The code is the function's return value (1, -1, -3, -4), taken in the order of its early returns. |
| `ConfParse` | config_init, config_read, parse_server, parse_firewall_ruleset, rule append, get_ruleset, parse_trusted_mac_list, parse_boolean_value, config_validate, config_init_override | Variables: `mode` (which loop runs, or how parsing ended), `linenum`, `daemon`, `str`/`num` (the scalar fields), `servers` (the five server lists), `blk` (parse_server's locals), `rulesets`, `rsname`, `trusted`, `pending` (tokens strsep has still to return), and six history variables used only by properties. Among them are `accepted[n]`, the rules appended under name `n` in file order; `blkLines`, the lines of the server block being read; and `blocks[k]`, the line lists of the closed blocks of kind `k`. There is one action per loop iteration or end of function: `ReadTopLine`, `ReadServerLine`, `CloseServer`, `ReadRulesetLine`, `CloseRuleset`, `TrustedMacToken`, `ConfigReadEnd`, `ConfigValidate`, `ConfigInitOverride`. |
| `MCConfParse` | — | Model values and line alphabets for TLC. |
| `MCFirewallRule` | — | Enumerates every short line of words and compares `ParseFirewallRule` with the grammar of spec 4.4. |
| `AuthServers` | get_auth_server, mark_auth_server_bad and their callers | The list is `head` plus a `next` function over the nodes; `lock`, `pc`, `seen` (the caller's `bad_server`) and `tmp`. Every pointer store of the rotation is its own action (`MarkCheck`, `MarkLink`, `MarkHead`, `MarkUnlink`), so the unlocked `GetAuthServer` reads of other threads can interleave with each of them. The callers (`Served`, `Report`, `Lock`, `Unlock`) are outside `conf.c` and are modelled from spec 5. |
| `AuthRefinement` | — | The RECURSIVE walk `Chain` from `head` to NULL, and `AuthRotation` instantiated with `list <- Chain` as the refinement mapping. It is kept apart so that `AuthServers` has no RECURSIVE operator and can be proved about. |
| `AuthRotation` | spec 5 and 8 | The abstract list as a sequence. `MarkBad` demotes the head to the tail. |
| `MCAuthServers` | — | Three servers, two threads. |
| `ConfParseProofs` | — | TLAPS proofs about `ConfParse`: type correctness. |
| `ConfParseSafety` | — | TLAPS proofs about `ConfParse`: ruleset names stay unique, `get_ruleset` returns the file's rules, the trusted list keeps every new MAC. |
| `AuthServersProofs` | — | TLAPS proofs about `AuthServers`: the list is well formed whenever the lock is free, and the head moves only for the reporter of the current head. |

### How the file is abstracted

A line reaches `ConfParse` already tokenised, as `[kw, val]`. This mirrors what
the code's in-place tokenising produces:

- `val` is the first space-free word after the keyword, because
  `config_read()` cuts at the first space (line 821);
- `val` is NULL when nothing follows the keyword;
- `kw = "#"` is a comment line;
- a block line containing `}` anywhere ends the block (the `strchr` of line 340);
- `kw = ""` is a block line that is empty after stripping.

Each parser draws its lines from its own alphabet: `TopLines`, `ServerLines` or
`RulesetLines`. End of file may happen at any line. `linenum` is bounded by
`MaxLines`.

Other conversions are given by what they do:

- sscanf `%d` is the table `ScanInt`, which is NULL when there is no number,
  in which case the field is left unchanged;
- atoi is `Atoi`, which gives 0 when there is no number;
- the MAC normalisation `sscanf(" %17[A-Fa-f0-9:]")` is the table `NormMac`;
- `wd_gethostbyname` is a nondeterministic choice of an address or none.

## Runs

| run | cfg | expect | what it shows |
|---|---|---|---|
| rulesets | `MCConfParse_rulesets.cfg` | pass | `RulesetNamesUnique`: reopening a FirewallRuleSet never creates a second ruleset of that name, so `get_ruleset` (which returns the first) sees all its rules. `RulesetsFollowFile`: reopened and interleaved FirewallRuleSet blocks, up to 6 lines, give `get_ruleset(name)` exactly the file's rules for that name in file order. |
| startup | `MCConfParse_startup.cfg` | pass | `ServersFollowFile`: after any sequence of server blocks, each list holds exactly the blocks of its kind that named a Hostname, in file order. Each field takes the value of the last line of its own block that sets it, or the default. A block without Hostname is dropped (line 427, spec 3), and nothing leaks from one block into the next. The reference `FromBlock` reads the field values directly off a block's lines. `TypeOK` checks the types, a bad `SSLAvailable` value included. |
| trusted | `MCConfParse_trusted.cfg` | pass | `TrustedMacsComplete`: the duplicate check never drops a MAC that is new. |
| auth_rotation | `MCAuthServers.cfg` | pass | `ListWellFormed`: the list is NULL-terminated whenever the lock is free. `HeadMovesOnlyForReporter` (action property): `config.auth_servers` changes only in a step of the lock holder whose `bad_server` is still the head, and then to its successor, so a stale report is a no-op. `ReportedHeadDemoted`: a reported head with a successor is eventually demoted. Both hold under concurrent readers and reporters. |
| auth_rotation_refines | `MCAuthServers_rotation.cfg` | violation | `RotationSpec`: `mark_auth_server_bad` does not refine `AuthRotation`. |
| trusted_dup | `MCConfParse_trusted_dup.cfg` | violation | `TrustedMacsDistinct`. |
| trusted_space | `MCConfParse_trusted_space.cfg` | violation | `TrustedListKeepsAllTokens`. |
| rule_error | `MCConfParse_rule_error.cfg` | violation | `InvalidRuleIsFatal`. |
| rule_short_lines | `MCFirewallRule_short.cfg` | violation | `RuleParserMatchesGrammar` on lines of at most 3 words, none ending in a blank. |
| rule_trailing_blank | `MCFirewallRule_blank.cfg` | violation | `RuleParserMatchesGrammar` on lines whose last word is followed by a blank. |
| rule_trailing_words | `MCFirewallRule_extra.cfg` | violation | `RuleParserMatchesGrammar` on 4-word lines: words after the mask. |
| auth_torn | `MCAuthServers_torn.cfg` | violation | `ListNeverTorn`: the list an unlocked reader walks is circular during a rotation. |

Each property of a passing run has a mutant in `PROJECT.json`: a plausible bug
in the mapped code that TLC then catches. The mutant operators sit next to the
definitions they replace, for example `AddRuleFirstOnly`, `AddRuleAtHead`,
`CloseServerKeepsHostless` and `MarkUnlinkKeepsLink`.

### Findings

- **Rotation loses the bad server (line 1107).**
  - Line 1103 links `bad_server` after the old tail. Line 1107 then clears the
    `next` of that same tail.
  - So `<<s1,s2,s3>>` becomes `<<s2,s3>>` and `s1` is gone, against spec 8
    and the function's own comment.
  - The store that was meant is the commented-out `bad_server->next = NULL`.
- **Duplicate MACs (line 998).** The loop compares an entry only while it has
  a successor, so the last entry is never compared. `A,B,B` gives `A,B,B`.
- **TrustedMACList with spaces (line 821).** The value is cut at its first
  space, so `A, B` trusts only `A`. Spec 4.6 says tokens are separated by
  commas and spaces.
- **Rule errors are not fatal (line 599).** The return code of
  `_parse_firewall_rule` is ignored. The bad rule is skipped and parsing goes
  on, although spec 7 says the caller aborts.
- **Rule grammar (lines 647 and 677).**
  - A single unrecognised word is taken as `block`, because `finished` is
    tested together with `"block"`.
  - `port` followed by an empty word passes the digit check vacuously.
- **A blank after the last word (line 691).** `parse_firewall_ruleset` keeps
  the blank before a `#` comment (line 569). `TO_NEXT_WORD` then leaves
  `finished` unset, so `allow tcp # web` is refused with -4 (and skipped, see
  above), while `drop to ` is accepted with an empty mask.
- **Words after the mask (line 700).** The parser stops reading after the
  mask, so `drop to 10.0.0.0/8 drop` is accepted.
- **A transient cycle (line 1103).** Between lines 1103 and 1105 the old head
  is both head and successor of the tail, so the list is circular. Readers of
  `get_auth_server()` hold no lock; spec 5 says they never see a partly linked
  list. This stays true after line 1107 is corrected.

### Bounds

- **Parser.** Two ruleset names and up to 6 lines allow two blocks of one
  name, with the other name's block between them. This is the reordering that
  the append search at line 734 must get right.
- **Startup.** The top-level alphabet contains every kind of directive,
  including the three block openers. The server-block alphabet has two
  Hostname values, Path, HTTPPort and a good and a bad `SSLAvailable`. The
  closing `}` is not counted in `linenum` (line 341 counts only lines that
  stay in the loop), so 5 lines allow these sequences:
  - a block with Path and Hostname followed by a block with Hostname only,
    where a leak of the first block's Path would show;
  - a block that sets Hostname twice;
  - a block without Hostname before or after a kept one.
- **Trusted list.** Two MACs plus tokens that normalise to one of them or to
  nothing. That is enough for the list to reach length 2, where the unchecked
  last entry matters.
- **Auth list.** Three servers and two threads give:
  - a rotation with a middle node;
  - a stale report by one thread after the other has rotated;
  - reads during every intermediate store.

## Fairness

`FairSpec` assumes weak fairness for each thread's steps while it holds the
lock (`Holding(t)`). The code under the lock neither blocks nor waits, so a
thread that holds the lock keeps running. No fairness is assumed for reading
or reporting: a thread may stay idle for ever. The parser runs set
`CHECK_DEADLOCK FALSE` because parsing really ends, in `running` or `exited`.

## Proofs (TLAPS)

`ConfParseProofs` proves `THEOREM TypeCorrect == Spec => []TypeOK` for every
value of the constants, under `ConstAssumption`. `ConstAssumption` requires
that:

- NULL and DEFAULT are not values;
- `NormMac` and `ScanInt` have their types;
- each line alphabet gives each keyword a value of the kind the code passes it.

`TypeOK` is not inductive on its own. `TrustedMacToken` takes `Head(pending)`,
and `ReadRulesetLine` appends to ruleset `rsname`, so the strengthening `IInv`
adds:

- in mode `trusted`, `pending` is non-empty;
- in mode `ruleset`, `rsname` is a name;
- in mode `server`, `blk.kind` is a server list.

The proof shows `Init => IInv` and that each action preserves `IInv`, with one
lemma per action. It rests on lemmas about sequence update and append
(`ExceptSeq`, `RulesExcept`, `AddRuleType`, `AddTrustedMacType`) and on the
result type of the rule parser (`ParseRuleType`). The theorem then follows by
PTL.

`TypeOK` also types the history variables `blkLines` and `blocks`. Their
updates are part of `ReadTopLine`, `ReadServerLine` and `CloseServer`, so the
lemmas for those actions prove their types too.

`ConfParseSafety` proves two safety theorems for every value of the
constants:

- `RulesetNamesStayUnique == Spec => []RulesetNamesUnique`;
- `TrustedListComplete == Spec => []TrustedMacsComplete`.

They share one inductive invariant, `SInv`: `IInv` and the two parser
properties. Frame lemmas (`ReadTopLineFrame` and the like) state what each reading action
leaves unchanged. `AddRuleNames` shows that `AddRule` keeps the set of names
except for the one it may add, and `AddTrustedMacRange` that `AddTrustedMac`
keeps every entry and adds its MAC. One lemma per action shows it preserves
`SInv`.

`ConfParseSafety` also proves
`RulesetsAlwaysFollowFile == Spec => []RulesetsFollowFile`: for every name `n`,
`get_ruleset(n)` is `accepted[n]`. The inductive invariant is
`FInv == SInv /\ RulesetsFollowFile`. Uniqueness of names is needed because
`get_ruleset` returns the first match: `FirstNamedIsOnly` shows that on a list
without twins the search stops at the one ruleset with the name, and
`RulesInAddRule` that appending rule `r` under `n` appends `r` to what
`get_ruleset(n)` returns and changes it for no other name. `FollowFrame` shows
that every other step leaves both `rulesets` and `accepted` unchanged.

`AuthServersProofs` proves two theorems about the run-time auth list for every
number of threads and servers:

- `ListAlwaysWellFormed == Spec => []ListWellFormed`;
- `StaleReportsKeepHead == Spec => HeadMovesOnlyForReporter`.

The list is stated without recursion: `ListFrom(n, L)` says that the sequence
`L` of distinct nodes is the walk from `n` to NULL, and `Terminated` that such a
walk from `head` exists. `ListWellFormed` is not inductive, because inside
`mark_auth_server_bad` the list is circular or headless. The invariant `IInv`
states:

- the types;
- a thread is at a locked program point exactly when it holds the lock, so the
  holder is alone;
- when the lock is free, or its holder is at the check or the unlock, the list
  is terminated;
- at each pointer store (`link`, `head`, `unlink`), there is a sequence `L`
  (`Rotating(t, L)`) of at least two distinct linked nodes with `L[1]` the
  reported server and `tmp` its last node. At `link`, `head = L[1]` and the
  tail points to NULL. At `head`, the tail points back to `L[1]`. At `unlink`,
  `head = L[2]` and the tail still points to `L[1]`.

After the last store, `Tail(L)` is the walk from the new head. One lemma per
action shows that it preserves `IInv`. The action property follows from `IInv`
(`HeadStep`): only `MarkHead` changes `head`, and only for the holder at
`head` with `seen = head`. The check at line 1099 guarantees this.

Only model-checked:

- `ServersFollowFile`. Its reference `FromBlock` takes the last line that
  sets a field, a statement about every position of a sequence; the proof is
  left for later;
- liveness (`ReportedHeadDemoted`), because TLAPS does not handle fairness or
  ENABLED;
- the refinement of `AuthRotation` (`RotationSpec`). TLC finds it violated. Its
  mapping `Chain` is a RECURSIVE walk, kept in `AuthRefinement` so that it
  does not take the SMT backend from `AuthServersProofs`;
- the properties of the violation runs, which are false of the code.

## Not modelled

- **The other accessors.** `get_portal_server`, `get_plat_server`,
  `get_log_server`, `get_update_server` and `config_get_config` only return a
  pointer.
- **The byte-level tokenising of a line.** Its outcomes are the line kinds
  above.
- **Lines longer than `MAX_BUF`.** `fgets` would split them.
- **Memory allocation and the debug log.**
- **Carriage returns (line 823).** On a CRLF file the `'\r'` stays in the
  value, so `GatewayInterface eth0\r` names no interface. Bytes are not
  modelled, so no property covers it.
- **A block opener without a value (line 830).** `AuthServer` with its `{`
  on the next line is skipped like an empty line. The block's lines are then
  read at top level, where the server keywords fall through the switch, and
  the server vanishes. The model produces this sequence. But `blocks`
  records only the blocks that `parse_server()` read, so `ServersFollowFile`
  cannot see a block that was never opened, and no property covers this.

## Plan for further work

- **Model the readers' walk.** Check that a reader walking the auth list
  during a rotation terminates and sees every server.
- **Server blocks that vanish.** State a property that every server block of
  the file yields a server, which the opener without a value (line 830)
  breaks.
- **Prove that the rotation keeps the set of servers.** Relate the walk after
  `mark_auth_server_bad` to the walk before it.
