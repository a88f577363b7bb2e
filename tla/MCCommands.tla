---------------------------- MODULE MCCommands ----------------------------
(* Small instances of the commands and the other components for TLC. *)
EXTENDS Commands

CONSTANTS o, a, b, c, d, k1, k2, k3, x1, x2, f1, f2

\* Chains, a diamond, a way back, a way to itself.
Web == {<<o, a>>, <<o, b>>, <<a, c>>, <<b, d>>, <<c, d>>, <<d, o>>, <<a, a>>}
Chain == {<<o, a>>, <<a, c>>}
AnyOfWeb == {Chain \cup W : W \in SUBSET (Web \ Chain)}
FewOrOne ==
  {[x \in Addr |-> IF x = y THEN s ELSE "few"] : y \in {o, b}, s \in {"few", "many", "hub"}}
OneOrTwo == {{o}, {o, b}}
SomeLimits ==
  {[depth |-> 3, fanout |-> 3, max_nodes |-> 9], [depth |-> 3, fanout |-> 1, max_nodes |-> 9],
   [depth |-> 2, fanout |-> 2, max_nodes |-> 4], [depth |-> 3, fanout |-> 2, max_nodes |-> 1]}

Knob(w, p, n, writers) ==
  [workers |-> w, processes |-> p, share |-> 60, conn |-> n, write |-> writers]
\* Too few connections asked for, more writers than connections, two processes.
SomeKnobs == {Knob(3, 1, 2, 0), Knob(3, 1, 2, 2), Knob(5, 2, 0, 5)}

Entry(x, currency) == [address |-> x, currency |-> currency]
\* Addresses under several currencies, blanks, another order.
SomeLists ==
  {<<Entry(a, "XBT"), Entry(b, "ETH"), Entry(b, "XBT")>>,
   <<Entry(b, "XBT"), Entry(Blank, "XBT"), Entry(a, "XBT"), Entry(a, "ETH")>>,
   <<Entry(a, "XBT"), Entry(Blank, "XBT"), Entry(b, "XBT")>>}
Row(x, source, category, confidence) ==
  [address |-> x, source |-> source, category |-> category, confidence |-> confidence]
\* A surer tag than that of OFAC, an address twice in one file, one under the
\* name of OFAC.
SomeSheets ==
  {<<Row(a, "user", "exchange", 10), Row(Blank, "user", "mixer", 5), Row(b, "user", "mixer", 5)>>,
   <<Row(a, "builtin", "mixer", 12), Row(a, "builtin", "other", 3)>>,
   <<Row(a, "OFAC", "exchange", 10)>>}

Slash(x) == [before |-> "/", part |-> x]
TheEnvFile == <<Slash("app"), Slash("env")>>
\* Two candidates of one base name, and one that shares the name of a copy.
SomeConfs == <<<<Slash("home"), Slash("conf")>>, <<Slash("data"), Slash("conf")>>,
               <<Slash("data"), [before |-> "__", part |-> "conf"]>>>>

\* Keys of each form, one with a digest that begins with a zero byte.
KeyForms == (k1 :> "uncompressed") @@ (k2 :> "compressed") @@ (k3 :> "hybrid")
Digests == (k1 :> <<0, 1>>) @@ (k2 :> <<2, 3>>) @@ (k3 :> <<1, 0>>)
Checksums == (<<0, 1>> :> <<2>>) @@ (<<2, 3>> :> <<0>>) @@ (<<1, 0>> :> <<3>>)

Output(type, keys, amount) == [script |-> [type |-> type, keys |-> keys], amount |-> amount]
PubkeyOutputs ==
  {Output("pubkey", <<k1>>, 5), Output("pubkey", <<k2>>, 3), Output("pubkey", <<k3>>, 3)}
OtherOutputs ==
  {Output("pubkey", <<k2>>, 0), Output("pubkey", <<k3>>, 3), Output("pubkeyhash", <<k1>>, 3),
   Output("witness_v1_taproot", <<k1>>, 3), Output("multisig", <<k2, k3>>, 3)}
\* A P2PK output of some value and another one.
OnePubkey == {(x1 :> first) @@ (x2 :> second) : first \in PubkeyOutputs, second \in OtherOutputs}

\* Blocks 3 and 4, 4 and 5 meet at two rows and one, all three at y; block 4 has
\* the earliest time.
SomeTouches == (3 :> {a, b}) @@ (4 :> {a, b, c}) @@ (5 :> {b, c})
SomeTimes == (3 :> 7) @@ (4 :> 6) @@ (5 :> 9)

\* Blocks 0 to 3 with transactions and an empty 4.  Block 1 has nothing but a
\* P2PK coinbase, g0, p1, p2 are P2PK, t2 spends p1, and t3 one output of each kind.
SomeHeights == 0..4
SomeTx == {"c0", "c1", "c2", "t2", "c3", "t3"}
SomeOut == {"g0", "p1", "a2", "p2", "b2", "a3"}
SomeBlocks == ("c0" :> 0) @@ ("c1" :> 1) @@ ("c2" :> 2) @@ ("t2" :> 2) @@ ("c3" :> 3) @@ ("t3" :> 3)
SomeMakers ==
  ("g0" :> "c0") @@ ("p1" :> "c1") @@ ("a2" :> "c2") @@ ("p2" :> "c2") @@ ("b2" :> "t2") @@ ("a3" :> "t3")
SomeSpenders ==
  ("g0" :> "no") @@ ("p1" :> "t2") @@ ("a2" :> "t3") @@ ("p2" :> "t3") @@ ("b2" :> "no") @@ ("a3" :> "no")
=============================================================================
