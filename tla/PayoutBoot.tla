----------------------------- MODULE PayoutBoot -----------------------------
(***************************************************************************)
(* The payout address over the life of an installation                     *)
(* (src/src/settings.rs and the boot in src/src/main.rs): config.toml, the *)
(* row a dashboard save leaves in the store, and the chain of the node the *)
(* pool is pointed at, which differ from one boot to the next.             *)
(***************************************************************************)
EXTENDS Naturals

CONSTANTS
  Nowhere,      \* no assertion, no row
  MaxEdits      \* bound: changes of the installation and saves

Chains == {"main", "test", "testnet4", "signet", "regtest", "other"}
Addresses == {"bc", "tb", "legacy", "placeholder"}

ASSUME NowhereAssumption == Nowhere \notin Addresses

VARIABLES
  node_chain,           \* what the node reports
  config,               \* config.toml: the address and the asserted network
  row,                  \* settings table: coinbase_address, or Nowhere
  serving,              \* the pool runs
  network, address, valid,      \* RuntimeSettings
  edits

bootVars == <<node_chain, config, row, serving, network, address, valid, edits>>

network_of(chain) ==
  CASE chain = "main" -> "mainnet" [] chain = "test" -> "testnet" [] OTHER -> chain

(* The networks an address parses for; a placeholder parses for none.       *)
Belongs(a) ==
  CASE a = "bc" -> {"mainnet"}
    [] a = "tb" -> {"testnet", "testnet4", "signet"}
    [] a = "legacy" -> {"testnet", "testnet4", "signet", "regtest"}
    [] OTHER -> {}

validate(a, net) == net \in Belongs(a)

BootInit ==
  /\ node_chain \in Chains /\ row = Nowhere /\ serving = FALSE
  /\ config \in [address : Addresses, asserted : {Nowhere, "mainnet", "signet"}]
  /\ network = Nowhere /\ address = "placeholder" /\ valid = FALSE /\ edits = 0

-----------------------------------------------------------------------------
(* Mutant: the row is applied unseen. *)
apply_persisted_Trusted(a, net) ==
  IF row = Nowhere THEN [address |-> a, valid |-> validate(a, net)]
  ELSE [address |-> row, valid |-> TRUE]

(* A row that is not valid on this chain is skipped. *)
apply_persisted(a, net) ==
  IF row # Nowhere /\ validate(row, net) THEN [address |-> row, valid |-> TRUE]
  ELSE [address |-> a, valid |-> validate(a, net)]

(* RuntimeSettings::new, then apply_persisted; refused on an unknown chain  *)
(* and on one the config does not assert.                                   *)
Boot ==
  LET net == network_of(node_chain)
      state == apply_persisted(config.address, net) IN
    /\ ~serving /\ node_chain # "other" /\ config.asserted \in {Nowhere, net}
    /\ serving' = TRUE /\ network' = net
    /\ address' = state.address /\ valid' = state.valid
    /\ UNCHANGED <<node_chain, config, row, edits>>

Edit == edits < MaxEdits /\ edits' = edits + 1

(* settings_post: update, then the row, unless the store fails. *)
update(a) ==
  /\ serving /\ Edit /\ validate(a, network)
  /\ address' = a /\ valid' = TRUE
  /\ row' \in {row, a}
  /\ UNCHANGED <<node_chain, config, serving, network>>

(* The pool stops; the operator edits config.toml or points the pool at     *)
(* another node.                                                            *)
Shutdown ==
  /\ serving /\ serving' = FALSE
  /\ UNCHANGED <<node_chain, config, row, network, address, valid, edits>>

Reinstall ==
  /\ ~serving /\ Edit
  /\ \/ node_chain' \in Chains /\ UNCHANGED config
     \/ \E a \in Addresses : config' = [config EXCEPT !.address = a] /\ UNCHANGED node_chain
  /\ UNCHANGED <<row, serving, network, address, valid>>

BootNext == Boot \/ (\E a \in Addresses : update(a)) \/ Shutdown \/ Reinstall

BootSpec == BootInit /\ [][BootNext]_bootVars

-----------------------------------------------------------------------------
(* An address the engine may pay (valid_coinbase_address) is one of the     *)
(* chain the pool booted on, whatever was saved on which chain before.      *)
PaysOnChain == serving /\ valid => validate(address, network)

(* Mining is paused only when nothing usable is at hand: a row saved for    *)
(* another chain does not hide a good address in config.toml, and a         *)
(* placeholder there does not hide a good row.                              *)
PausedForCause ==
  serving /\ ~valid => \A a \in {row, config.address} : ~validate(a, network)

(* The pool pays on the node's chain, and pauses for a reason only.         *)
PayoutTrue == PaysOnChain /\ PausedForCause
=============================================================================
