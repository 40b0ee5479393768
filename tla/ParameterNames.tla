--------------------------- MODULE ParameterNames ---------------------------
(***************************************************************************)
(* How the Parameter Store provider turns the paths of its callers into the*)
(* names of parameters and back (parameterstore.go: fullPath, stripPrefix).*)
(* A string is the sequence of its slashes and of what is between them.    *)
(***************************************************************************)
EXTENDS Sequences, SequencesExt

CONSTANTS PathPrefixes,  \* values of Config.PathPrefix
          CallerPaths    \* paths callers use

Slash == "/"

TrimSlash(s)  == IF s # <<>> /\ Last(s) = Slash THEN Front(s) ELSE s
Rooted(p)     == IF IsPrefix(<<Slash>>, p) THEN p ELSE <<Slash>> \o p

fullPathKeepingSlash(prefix, p) == IF prefix = <<>> THEN p ELSE prefix \o Rooted(p)

fullPath(prefix, p) == IF prefix = <<>> THEN p ELSE TrimSlash(prefix) \o Rooted(p)

stripPrefix(prefix, name) ==
  IF prefix # <<>> /\ IsPrefix(TrimSlash(prefix), name)
  THEN SubSeq(name, Len(TrimSlash(prefix)) + 1, Len(name))
  ELSE name

\* What NamesResolve of ParameterHistory asks for.
ReportedNamesResolve ==
  \A prefix \in PathPrefixes, p \in CallerPaths :
    fullPath(prefix, stripPrefix(prefix, fullPath(prefix, p))) = fullPath(prefix, p)
=============================================================================
