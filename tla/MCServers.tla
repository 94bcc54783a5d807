----------------------------- MODULE MCServers -----------------------------
(* Three components of the realm and login servers that share no state,     *)
(* checked in one run: a behaviour is one of RealmLogin, of Social or of    *)
(* CryptedConnection (whose names have no prefix: Init, Next, vars).        *)
EXTENDS RealmLogin, Social, CryptedConnection

VARIABLE part
serverVars == <<part, loginVars, socialVars, vars>>

MCAccountOf == [c \in Client |-> CHOOSE a \in Account : TRUE]

ServersInit == part \in {"login", "social", "crypted"} /\ LoginInit /\ SocialInit /\ Init

ServersNext ==
  /\ UNCHANGED part
  /\ \/ part = "login" /\ LoginNext /\ UNCHANGED <<socialVars, vars>>
     \/ part = "social" /\ SocialNext /\ UNCHANGED <<loginVars, vars>>
     \/ part = "crypted" /\ Next /\ UNCHANGED <<loginVars, socialVars>>

\* LoginFairness and the fairness of CryptedConnection's FairSpec.
ServersFairness ==
  /\ WF_loginVars(part = "login" /\ RealmHandles)
  /\ WF_loginVars(part = "login" /\ RealmSideLost)
  /\ WF_loginVars(part = "login" /\ Connects)
  /\ \A k \in LinkId : WF_loginVars(part = "login" /\ k \in DOMAIN link /\ LoginHandles(k))
  /\ WF_vars(part = "crypted" /\ EventLoop)
  /\ WF_vars(part = "crypted" /\ System)

\* The types of the three parts.
ServersTypeOK == LoginTypeOK /\ SocialTypeOK /\ TypeOK

ServersSpec == ServersInit /\ [][ServersNext]_serverVars /\ ServersFairness
=============================================================================
