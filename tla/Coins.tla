------------------------------- MODULE Coins -------------------------------
(***************************************************************************)
(* core/addresses.py and build-balances (cli.py): which address an output  *)
(* is stored under, whatever the version of the node that reports it, and  *)
(* the table of balances made from the stored rows.                        *)
(*                                                                         *)
(* A script is a record with its type and the keys it names.  hash160 and  *)
(* the checksum are arbitrary functions; base58check is the algorithm of   *)
(* the code on small digits.  Outputs are in blocks of their own, so that  *)
(* each row is stored by a transaction of its own.                         *)
(***************************************************************************)
EXTENDS Integers, Sequences, FiniteSets, FiniteSetsExt, SequencesExt

CONSTANTS
  Key, Form,          \* public keys: "compressed", "uncompressed" or "hybrid"
  Digest, Checksum,   \* hash160 of a key, and the checksum of version 0 and that
  Byte, Radix,        \* the size of a byte, and of the alphabet (58)
  Coin,               \* outputs
  Chains,             \* what they may be: [coin -> [script, amount]]
  Spent               \* those that are spent in some block

\* Scripts that name an address, a key or keys.
ScriptType == {"pubkey", "pubkeyhash", "multisig", "scripthash", "witness_v0_keyhash",
               "witness_v0_scripthash", "witness_v1_taproot"}

ASSUME CoinsAssumption ==
  /\ Form \in [Key -> {"compressed", "uncompressed", "hybrid"}]
  /\ Byte \in Nat \ {0} /\ Radix \in Nat \ {0, 1} /\ Byte <= Radix * Radix
  /\ \A k \in Key : Digest[k] \in Seq(0..(Byte - 1))
  /\ \A k \in Key : Checksum[Digest[k]] \in Seq(0..(Byte - 1))
  /\ IsFiniteSet(Coin) /\ Spent \subseteq Coin /\ <<>> \notin Chains
  /\ \A chain \in Chains, c \in Coin :
       /\ chain[c].script.type \in ScriptType
       /\ chain[c].script.keys \in Seq(Key) /\ chain[c].script.keys # <<>>
       /\ chain[c].amount \in Nat

VARIABLES
  coin,      \* the outputs of the chain, <<>> before the first command
  node,      \* "legacy" reports a list of addresses, "modern" at most one
  enum,      \* whether address_type has the value p2pk
  label,     \* what a running phase labels a P2PK output with
  out, in,   \* rows of transaction_io: [address, type] of an output, an input
  stored,    \* outputs whose block is extracted
  spend,     \* rows of spends
  refused,   \* outputs with a row the database refused
  balances   \* address_balances, <<>> before the first build

chainVars == <<coin, node, enum>>
rowVars == <<out, in, spend>>
coinVars == <<chainVars, label, rowVars, stored, refused, balances>>

Phase == {"extract", "backfill"}

-----------------------------------------------------------------------------
\* base58check_encode, with the digits of the alphabet as numbers ("1" is 0).

LeadingZeros(s) == Cardinality({i \in 1..Len(s) : \A j \in 1..i : s[j] = 0})
ValueIn(base, s) == FoldLeft(LAMBDA n, d : n * base + d, 0, s)

hash160(k) == Digest[k]
Raw(k) == <<0>> \o hash160(k) \o Checksum[hash160(k)]

Digits[n \in Nat] == IF n = 0 THEN <<>> ELSE Append(Digits[n \div Radix], n % Radix)

\* MUTANT: leading zero bytes are not preserved.
EncodeValueOnly(raw) == <<0>> \o Digits[ValueIn(Byte, raw)]
Encode(raw) == [i \in 1..LeadingZeros(raw) |-> 0] \o Digits[ValueIn(Byte, raw)]

DerivedAddress(k) == [hrp |-> "", text |-> Encode(Raw(k))]

\* What Bitcoin Core calls the address of a key: the one string with as many
\* leading ones as there are zero bytes, and with the value of the bytes.
CoreAddress ==
  [k \in Key |->
     [hrp |-> "",
      text |-> CHOOSE s \in UNION {[1..l -> 0..(Radix - 1)] : l \in 1..(2 * Len(Raw(k)))} :
                 /\ LeadingZeros(s) = LeadingZeros(Raw(k))
                 /\ ValueIn(Radix, s) = ValueIn(Byte, Raw(k))]]

-----------------------------------------------------------------------------
\* scriptPubKey as the node reports it: type, addresses, and the parts of hex.
\* A node before version 22 lists the addresses of all the keys of a script.

\* How the addresses of other scripts than those of one key begin.
Begins == [scripthash |-> "3", witness_v0_keyhash |-> "bc1q",
           witness_v0_scripthash |-> "bc1q", witness_v1_taproot |-> "bc1p"]

AddressesOf(s) ==
  IF s.type \in DOMAIN Begins THEN <<[hrp |-> Begins[s.type], text |-> s.keys]>>
  ELSE IF node = "legacy" \/ s.type = "pubkeyhash"
       THEN [i \in 1..Len(s.keys) |-> CoreAddress[s.keys[i]]]
       ELSE <<>>

Push(k) == IF Form[k] = "compressed" THEN 33 ELSE 65

ScriptPubKey(s) ==
  [type |-> s.type, addresses |-> AddressesOf(s),
   hex |-> IF s.type = "pubkey" THEN <<Push(s.keys[1]), s.keys[1], "ac">> ELSE <<>>]

\* pubkey_from_p2pk_script: none or one; asm, its fallback, names the same key.
Pubkeys(spk) == {k \in Key : \E n \in {33, 65} : spk.hex = <<n, k, "ac">>}

\* _PUBKEY_HEX_RE, then the derived address.
Derived(spk) == {DerivedAddress(k) : k \in {k \in Pubkeys(spk) : Form[k] # "hybrid"}}

TypeOfAddress(a) ==
  CASE a.hrp = "" /\ a.text[1] = 0 -> "p2pkh"
    [] a.hrp = "3" -> "p2sh"
    [] a.hrp = "bc1p" -> "taproot"
    [] a.hrp = "bc1q" -> "bech32"
    [] OTHER -> "unknown"

ScriptTypeMap == [pubkeyhash |-> "p2pkh", scripthash |-> "p2sh", witness_v0_keyhash |-> "bech32",
                  witness_v0_scripthash |-> "bech32", witness_v1_taproot |-> "taproot"]

NormalType(type, a) ==
  IF type \in DOMAIN ScriptTypeMap THEN ScriptTypeMap[type] ELSE TypeOfAddress(a)

\* extract_output_address: at most one pair of an address and a type.
OutputAddress(spk, p2pk) ==
  IF spk.addresses # <<>>
  THEN LET first == spk.addresses[1]
       IN  {[address |-> first,
             type |-> IF spk.type = "pubkey" THEN p2pk ELSE NormalType(spk.type, first)]}
  ELSE {[address |-> a, type |-> p2pk] : a \in Derived(spk)}

\* What a phase makes of c: nothing if it has no address or no value.
RowsFor(c, phase) ==
  IF coin[c].amount = 0 THEN {} ELSE OutputAddress(ScriptPubKey(coin[c].script), label[phase])

-----------------------------------------------------------------------------
Enum == {"p2pkh", "p2sh", "bech32", "taproot", "unknown"} \cup (IF enum THEN {"p2pk"} ELSE {})

\* The INSERT with its cast; a row that is there stays as it is.
Cast(rows) == \A r \in rows : r.type \in Enum
InsertRow(table, c, rows) ==
  [d \in DOMAIN table \cup (IF rows = {} THEN {} ELSE {c}) |->
     IF d \in DOMAIN table THEN table[d] ELSE CHOOSE r \in rows : TRUE]

CoinsInit ==
  /\ coin = <<>> /\ node = "modern" /\ enum = FALSE
  /\ label = [p \in Phase |-> "off"]
  /\ out = <<>> /\ in = <<>>
  /\ stored = {} /\ spend = {} /\ refused = {}
  /\ balances = <<>>

CoinsStart ==
  /\ coin = <<>>
  /\ coin' \in Chains /\ node' \in {"legacy", "modern"} /\ enum' \in BOOLEAN
  /\ UNCHANGED <<label, rowVars, stored, refused, balances>>

\* The operator installs a newer node, at any time.
UpgradeNode ==
  /\ coin # <<>> /\ node = "legacy" /\ node' = "modern"
  /\ UNCHANGED <<coin, enum, label, rowVars, stored, refused, balances>>

\* 001_add_p2pk_address_type.sql
Migrate ==
  /\ coin # <<>> /\ ~enum /\ enum' = TRUE
  /\ UNCHANGED <<coin, node, label, rowVars, stored, refused, balances>>

\* MUTANT: the phase does not ask what the enum admits.
LabelAlways == "p2pk"
Label == IF enum THEN "p2pk" ELSE "p2pkh"

\* setup of either phase, when it is started or started again.
PhaseSetup(p) ==
  /\ coin # <<>>
  /\ label' = [label EXCEPT ![p] = Label]
  /\ UNCHANGED <<chainVars, rowVars, stored, refused, balances>>

\* extract stores the block of c, or stores it again.
StoreOutput(c) ==
  /\ label["extract"] # "off"
  /\ \E rows \in {RowsFor(c, "extract")} :
       IF Cast(rows)
       THEN /\ out' = InsertRow(out, c, rows) /\ stored' = stored \cup {c}
            /\ UNCHANGED refused
       ELSE refused' = refused \cup {c} /\ UNCHANGED <<out, stored>>
  /\ UNCHANGED <<chainVars, label, in, spend, balances>>

\* What a phase finds of a spent output: what it makes of the prevout, which a
\* newer node may report, or no row.  Where it has none, backfill-vins takes the
\* row of the output, if it is stored.
InputRows(c, phase) ==
  LET known == IF phase = "backfill" /\ c \in DOMAIN out THEN {out[c]} ELSE {}
      own == IF node = "modern" THEN RowsFor(c, phase) ELSE {}
  IN  {known, IF own = {} THEN known ELSE own}

StoreInput(c, phase) ==
  /\ label[phase] # "off" /\ c \in Spent
  /\ \E rows \in InputRows(c, phase) :
       IF Cast(rows)
       THEN /\ in' = InsertRow(in, c, rows) /\ spend' = spend \cup {c}
            /\ UNCHANGED refused
       ELSE refused' = refused \cup {c} /\ UNCHANGED <<in, spend>>
  /\ UNCHANGED <<chainVars, label, out, stored, balances>>

-----------------------------------------------------------------------------
Sats(C) == MapThenSumSet(LAMBDA c : coin[c].amount, C)

\* MUTANT: an output is spent if an input row says so.
BalanceByInputs(C) ==
  [balance |-> Sats(C \ DOMAIN in), utxos |-> Cardinality(C \ DOMAIN in),
   received |-> Sats(C), spent |-> Sats(C \cap DOMAIN in)]

\* The aggregates of _BUILD_BALANCES_SQL over the outputs of an address.
Balance(C) ==
  [balance |-> Sats(C \ spend), utxos |-> Cardinality(C \ spend),
   received |-> Sats(C), spent |-> Sats(C \cap spend)]

\* One transaction empties the table and fills it.
BuildBalances ==
  /\ coin # <<>>
  /\ balances' = [a \in {out[c].address : c \in DOMAIN out} |->
                    Balance({c \in DOMAIN out : out[c].address = a})]
  /\ UNCHANGED <<chainVars, label, rowVars, stored, refused>>

CoinsNext ==
  \/ CoinsStart \/ UpgradeNode \/ Migrate \/ BuildBalances
  \/ \E p \in Phase : PhaseSetup(p)
  \/ \E c \in Coin : StoreOutput(c) \/ \E p \in Phase : StoreInput(c, p)

CoinsSpec == CoinsInit /\ [][CoinsNext]_coinVars

-----------------------------------------------------------------------------
\* Outputs with one owner whose address the documents promise; the others are
\* bare multisig, and P2PK with a hybrid key.
OneOwner(c) ==
  LET s == coin[c].script IN s.type # "multisig" /\ (s.type = "pubkey" => Form[s.keys[1]] # "hybrid")
OwnerAddress(c) ==
  LET s == coin[c].script
  IN  IF s.type \in DOMAIN Begins THEN [hrp |-> Begins[s.type], text |-> s.keys]
      ELSE CoreAddress[s.keys[1]]

\* An output and the input that spends it are stored under one address.  Where
\* the output has one owner, this is the address Bitcoin Core gives to the key:
\* that of an older node, which reports it, and that of a newer one, where the
\* code derives it, are the same (addresses.py:3-7, addresses.py:202).
OneWallet ==
  /\ \A c \in DOMAIN out \cap DOMAIN in : out[c].address = in[c].address
  /\ \A c \in DOMAIN out : OneOwner(c) => out[c].address = OwnerAddress(c)
  /\ \A c \in DOMAIN in : OneOwner(c) => in[c].address = OwnerAddress(c)

\* Coins the owner of an address holds, by the chain, of the blocks stored.
CoinsOf(a) == {c \in stored : OneOwner(c) /\ coin[c].amount > 0 /\ OwnerAddress(c) = a}
OwnersOnly ==
  {OwnerAddress(c) : c \in {c \in Coin : OneOwner(c)}}
    \ {CoreAddress[coin[c].script.keys[1]] : c \in {c \in Coin : ~OneOwner(c)}}

\* build-balances gives each owner what the chain gives it: P2PK and P2PKH
\* coins of a key together, blocks stored twice or by several nodes once, spent
\* coins out even where the row of the input is missing (cli.py:261-263,
\* addresses.py:3-7).  Addresses named by a multisig or hybrid key are excepted.
BalancesExact ==
  [][BuildBalances =>
       \A a \in OwnersOnly :
         LET C == CoinsOf(a)
         IN  /\ C = {} <=> a \notin DOMAIN balances'
             /\ C # {} => balances'[a] = [balance |-> Sats(C \ spend), utxos |-> Cardinality(C \ spend),
                                          received |-> Sats(C), spent |-> Sats(C \cap spend)]]_coinVars

\* No block fails because of the label of its P2PK rows: a phase only uses a
\* label the database has, before, during and after `migrate` (extract.py:139).
LabelsAccepted == refused = {}
=============================================================================
