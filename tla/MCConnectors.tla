---------------------------- MODULE MCConnectors ----------------------------
(***************************************************************************)
(* The connectors and what they stand on: GitHub, authorized hook, static  *)
(* web, SearXNG, public search signals, YouTube, the isolated worker and   *)
(* the archive.  They share no state, so each is explored by itself: part  *)
(* says which one moves, the others rest in an initial state.              *)
(***************************************************************************)
EXTENDS GitHubSnapshot, HookCircuit, PageFiles, StaticWeb, SearchSlices,
        SignalSeries, VideoSample, TLC

VARIABLE part  \* the component whose behaviours are explored

\* Three pages: a batch of two and one of one.
MCWebUrls == <<"home", "news", "blog">>

Symmetry == Permutations(Ids)

Parts == {"github", "hook", "page", "web", "search", "signal", "video"}

ConnectorsInit ==
  /\ part \in Parts
  /\ Init
  /\ HookInit
  /\ PageInit
  /\ WebInit
  /\ SliceInit
  /\ SignalInit
  /\ VideoInit
  /\ part # "github" => upstream = <<>>
  /\ part # "video" => videoOfficial = [b \in VideoBrands |-> {}]

ConnectorsNext ==
  \/ /\ part = "github" /\ Next
     /\ UNCHANGED <<part, hookVars, pageVars, webVars, sliceVars, signalVars,
                    videoVars>>
  \/ /\ part = "hook" /\ HookNext
     /\ UNCHANGED <<part, vars, pageVars, webVars, sliceVars, signalVars,
                    videoVars>>
  \/ /\ part = "page" /\ PageNext
     /\ UNCHANGED <<part, vars, hookVars, webVars, sliceVars, signalVars,
                    videoVars>>
  \/ /\ part = "web" /\ WebNext
     /\ UNCHANGED <<part, vars, hookVars, pageVars, sliceVars, signalVars,
                    videoVars>>
  \/ /\ part = "search" /\ SliceNext
     /\ UNCHANGED <<part, vars, hookVars, pageVars, webVars, signalVars,
                    videoVars>>
  \/ /\ part = "signal" /\ SignalNext
     /\ UNCHANGED <<part, vars, hookVars, pageVars, webVars, sliceVars,
                    videoVars>>
  \/ /\ part = "video" /\ VideoNext
     /\ UNCHANGED <<part, vars, hookVars, pageVars, webVars, sliceVars,
                    signalVars>>

connectorsVars == <<part, vars, hookVars, pageVars, webVars, sliceVars,
                      signalVars, videoVars>>

ConnectorsSpec == ConnectorsInit /\ [][ConnectorsNext]_connectorsVars

\* Every component is well formed, whatever failed or raced before.
ConnectorTypeOK ==
  /\ part \in Parts
  /\ TypeOK /\ HookTypeOK /\ PageTypeOK /\ WebTypeOK
  /\ SliceTypeOK /\ SignalTypeOK /\ VideoTypeOK
=============================================================================
