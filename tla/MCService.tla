----------------------------- MODULE MCService -----------------------------
(***************************************************************************)
(* Two strategies over two trading keys, which they share or not, and a    *)
(* routing key.  The initial states are a new installation, and one that   *)
(* has been used: all keys in the vault, both strategies ready to launch.  *)
(***************************************************************************)
EXTENDS Service, TLC

OneWallet == {{w} : w \in Trading}

Symmetry == Permutations(Strategies) \cup Permutations(Trading)

FreshInstall == vault = "absent" /\ \A s \in Strategies : cfg[s] = None
Used ==
  /\ vfile = Wallets
  /\ \A s \in Strategies : cfg[s] # None
  /\ \E w \in Trading, s \in Strategies :
       \A t \in Strategies : cfg[t].wallets = IF t = s THEN {w} ELSE Trading \ {w}

MCInit == Init /\ (FreshInstall \/ Used)
MCSpec == MCInit /\ [][Next]_vars /\ Fairness
=============================================================================
