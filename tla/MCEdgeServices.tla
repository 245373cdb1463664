--------------------------- MODULE MCEdgeServices ---------------------------
(* The services that face another system or a user's machine: the Mirror     *)
(* and its ingress, provider operations, the Actions bridge, installation,   *)
(* the local agent, Git transport, the transfer of Projects and the mounts   *)
(* of a Workspace.  Each keeps its state to itself, so a behaviour is one of *)
(* one service: the run explores them side by side and not the product of    *)
(* their states.                                                             *)
EXTENDS
  MirrorSync, MirrorIngress, ProviderOperations, ActionsBridge, Installation,
  LocalAgent, GitTransport, ProjectTransfer, WorkspaceMounts

VARIABLE service   \* the service whose behaviour this is

Services ==
  {"mirror", "ingress", "provider", "bridge", "installation", "agent",
  "transport", "transfer", "mounts"}

-----------------------------------------------------------------------------
(* Constants of the instance *)

\* Two tokens of different commits.
MCShaOf == [t \in BrTokens |-> IF t = "t1" THEN 1 ELSE 2]

\* The import of the export and that of a Git repository have their own
\* destinations; bound: they are not under way in the same behaviour.
MCDestOf == [k \in PtKeys \cup PtGit |-> IF k \in PtKeys THEN "d1" ELSE "d2"]
MCBegun(k) == ptProc[k] # PtIdle \/ ptFile[k] # PtNone \/ (k \in PtGit /\ ptClone[k] # PtNone)
MCOneImport == \A k \in PtKeys, g \in PtGit : ~(MCBegun(k) /\ MCBegun(g))

\* Two Source Spaces, one also with blanks around its name, and a blank one.
MCTrim == [x |-> "x", xBlanks |-> "x", y |-> "y", blanks |-> "none"]
\* Paths that differ in case or separator, are inside one another or only
\* begin alike, and the kinds that are refused.
MCPaths ==
  {<<"a">>, <<"A">>, <<"a", "b">>, <<"a", "/", "b">>, <<"A", "\\", "b">>, <<"a", "wide", "b">>,
   << >>, <<"/", "a">>, <<"b", "/", ".">>, <<"a", ":">>, <<"nul">>}

-----------------------------------------------------------------------------
(* One service at a time *)

OthersKeep(s) ==
  /\ s # "mirror" => UNCHANGED msVars
  /\ s # "ingress" => UNCHANGED miVars
  /\ s # "provider" => UNCHANGED poVars
  /\ s # "bridge" => UNCHANGED brVars
  /\ s # "installation" => UNCHANGED inVars
  /\ s # "agent" => UNCHANGED laVars
  /\ s # "transport" => UNCHANGED gtVars
  /\ s # "transfer" => UNCHANGED ptVars
  /\ s # "mounts" => UNCHANGED wmCall

MCInit ==
  /\ service \in Services
  /\ MsInit /\ MiInit /\ PoInit /\ BrInit /\ InInit /\ LaInit /\ GtInit /\ PtInit /\ WmInit

MCNext ==
  /\ \/ service = "mirror" /\ MsNext
     \/ service = "ingress" /\ MiNext
     \/ service = "provider" /\ PoNext
     \/ service = "bridge" /\ BrNext
     \/ service = "installation" /\ InNext
     \/ service = "agent" /\ LaNext
     \/ service = "transport" /\ GtNext
     \/ service = "transfer" /\ PtNext /\ MCOneImport'
     \/ service = "mounts" /\ WmNext
  /\ OthersKeep(service) /\ UNCHANGED service

mcVars == <<service, msVars, miVars, poVars, brVars, inVars, laVars, gtVars, ptVars, wmCall>>
MCSpec == MCInit /\ [][MCNext]_mcVars

-----------------------------------------------------------------------------

\* The records of the services have their types; nothing the Actions bridge
\* takes from GitHub counts twice, over restarts too: a token is exchanged once,
\* an operation is carried out once (exchangeOidcToken, submitCheckpoint); and
\* the mounts of a Workspace are accepted exactly when they cover its Source
\* Spaces one by one at paths apart from each other (validateWorkspaceMounts).
EdgeServicesConsistent ==
  /\ MsTypeOK /\ MiTypeOK /\ PoTypeOK /\ BrTypeOK /\ InTypeOK /\ LaTypeOK /\ GtTypeOK /\ PtTypeOK
  /\ WmTypeOK
  /\ BrNothingTwice /\ WmAcceptsProper
=============================================================================
