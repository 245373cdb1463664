--------------------------- MODULE WorkspaceMounts ---------------------------
(* The check of the mounts of a Workspace (validateWorkspaceMounts and       *)
(* validateWorkspaceMountPaths in kernel/workspace-mounts.ts): one mount for *)
(* every disclosed Source Space, at paths that stay apart on every file      *)
(* system.  The code walks the mounts one by one and compares strings; what  *)
(* it is to accept is stated without an order, on folders.                   *)
EXTENDS Integers, Sequences, SequencesExt

CONSTANTS
  WmIds,       \* Source Space identifiers as given
  WmTrim,      \* what is left of an identifier when it is trimmed
  WmBlank,     \* nothing
  WmPaths,     \* mount paths as given: sequences of characters
  WmMax        \* bound on Source Spaces and on mounts

\* The characters that paths are made of: letters of both cases, both
\* separators, the wide backslash that NFKC turns into a backslash, and others.
WmChars == {"a", "b", "A", "/", "\\", "wide", ".", ":", "nul"}

ASSUME WmAssumption ==
  WmTrim \in [WmIds -> WmIds \cup {WmBlank}] /\ WmPaths \subseteq Seq(WmChars) /\ WmMax \in Nat

VARIABLE wmCall   \* the call under way, or the last one

WmMount == [source : WmIds, path : WmPaths]
WmCodes ==
  {"accepted", "source-space-array-invalid", "source-space-empty", "source-space-duplicate",
   "mount-count-mismatch", "mount-invalid", "mount-source-undisclosed",
   "mount-source-duplicate", "mount-path-duplicate", "mount-path-overlap"}

WmTypeOK ==
  /\ wmCall.at \in {"idle", "mounts", "done"}
  /\ wmCall.sources \in Seq(WmIds) /\ wmCall.mounts \in Seq(WmMount)
  /\ wmCall.outcome \in WmCodes \cup {"none"}
  /\ Len(wmCall.mounted) <= Len(wmCall.mounts)

WmInit == wmCall = [at |-> "idle", sources |-> << >>, mounts |-> << >>, mounted |-> << >>, outcome |-> "none"]

-----------------------------------------------------------------------------
(* Paths *)

\* normalizedMountPath: separators are replaced before NFKC.
WmNfkc(x) == CASE x = "\\" -> "/" [] x = "wide" -> "\\" [] OTHER -> x
WmReplaced(path) == [i \in 1 .. Len(path) |-> WmNfkc(path[i])]

\* split: a segment lies between two neighbouring separators, or an end.
WmBars(path, separators) == {i \in 1 .. Len(path) : path[i] \in separators}
WmSections(path, separators) ==
  LET bars == WmBars(path, separators) IN
  {s \in ({0} \cup bars) \X (bars \cup {Len(path) + 1}) :
     s[1] < s[2] /\ \A b \in bars : ~ (s[1] < b /\ b < s[2])}
WmSegment(path, s) == SubSeq(path, s[1] + 1, s[2] - 1)

WmBadSegments == {<< >>, <<".">>, <<".", ".">>}

WmNormal(path) ==
  LET p == WmReplaced(path)
  IN /\ ~ (Len(p) > 1 /\ p[1] \in {"a", "b", "A"} /\ p[2] = ":")
     /\ ~ Contains(p, "nul")
     /\ \A s \in WmSections(p, {"/"}) : WmSegment(p, s) \notin WmBadSegments

\* collisionKey
WmLower(x) == IF x = "A" THEN "a" ELSE x
WmKey(path) == [i \in 1 .. Len(path) |-> WmLower(path[i])]

\* overlaps, on strings.
WmOverlaps(left, right) ==
  LET l == WmKey(left)
      r == WmKey(right)
  IN l = r \/ IsPrefix(Append(r, "/"), l) \/ IsPrefix(Append(l, "/"), r)

-----------------------------------------------------------------------------
(* validateWorkspaceMounts *)

WmAnswer(code) == wmCall' = [wmCall EXCEPT !.at = "done", !.outcome = code]

\* The Source Spaces: the first that is blank or given before is reported.
WmSourceCode(sources) ==
  LET id(i) == WmTrim[sources[i]]
      wrong == {i \in 1 .. Len(sources) : id(i) = WmBlank \/ \E j \in 1 .. i - 1 : id(j) = id(i)}
  IN CASE sources = << >> -> "source-space-array-invalid"
       [] sources # << >> /\ wrong = {} -> "none"
       [] OTHER -> IF id(Min(wrong)) = WmBlank THEN "source-space-empty" ELSE "source-space-duplicate"

WmValidate(sources, mounts, code) ==
  wmCall' = [at |-> IF code = "none" THEN "mounts" ELSE "done",
             sources |-> sources, mounts |-> mounts, mounted |-> << >>, outcome |-> code]

WmValidateMounts(sources, mounts) ==
  WmValidate(sources, mounts, WmSourceCode(sources))

\* validateWorkspaceMountPaths: the n-th path is for the n-th Source Space.
WmValidatePaths(sources, paths) ==
  IF Len(paths) # Len(sources)
  THEN WmValidate(sources, << >>, "mount-count-mismatch")
  ELSE WmValidateMounts(sources,
         [i \in 1 .. Len(paths) |-> [source |-> sources[i], path |-> paths[i]]])

\* One turn of the loop over the mounts.
WmCheckMount ==
  LET n == Len(wmCall.mounted) + 1
      source == WmTrim[wmCall.mounts[n].source]
      path == WmReplaced(wmCall.mounts[n].path)
      disclosed == {WmTrim[x] : x \in ToSet(wmCall.sources)}
      taken == \E m \in ToSet(wmCall.mounted) : m.source = source
      near == {i \in 1 .. Len(wmCall.mounted) : WmOverlaps(wmCall.mounted[i].path, path)}
  IN /\ wmCall.at = "mounts" /\ n <= Len(wmCall.mounts)
     /\ \/ source = WmBlank /\ WmAnswer("source-space-empty")
        \/ /\ source # WmBlank /\ ~ WmNormal(wmCall.mounts[n].path)
           /\ WmAnswer("mount-invalid")
        \/ /\ source # WmBlank /\ WmNormal(wmCall.mounts[n].path)
           /\ \/ source \notin disclosed /\ WmAnswer("mount-source-undisclosed")
              \/ /\ source \in disclosed
                 /\ \/ taken /\ WmAnswer("mount-source-duplicate")
                    \/ /\ ~ taken /\ near # {}
                       /\ WmAnswer(IF WmKey(wmCall.mounted[Min(near)].path) = WmKey(path)
                                   THEN "mount-path-duplicate" ELSE "mount-path-overlap")
                    \/ /\ ~ taken /\ near = {}
                       /\ wmCall' = [wmCall EXCEPT !.mounted =
                            Append(@, [source |-> source, path |-> path])]

\* After the loop: as many mounts as Source Spaces.
WmCheckCount ==
  /\ wmCall.at = "mounts" /\ Len(wmCall.mounted) = Len(wmCall.mounts)
  /\ WmAnswer(IF Len(wmCall.mounts) = Len(wmCall.sources) THEN "accepted" ELSE "mount-count-mismatch")

WmNext ==
  \/ /\ wmCall.at = "idle"
     /\ \E n, m \in 0 .. WmMax : \E sources \in [1 .. n -> WmIds] :
          \/ \E mounts \in [1 .. m -> WmMount] : WmValidateMounts(sources, mounts)
          \/ \E paths \in [1 .. m -> WmPaths] : WmValidatePaths(sources, paths)
  \/ WmCheckMount \/ WmCheckCount

WmSpec == WmInit /\ [][WmNext]_wmCall

-----------------------------------------------------------------------------

\* The folders a path leads through, each with its depth, where separators and
\* case do not matter.
WmFolders(path) ==
  LET separators == {"/", "\\"} IN
  {<<Cardinality({b \in WmBars(path, separators) : b <= s[1]}), WmKey(WmSegment(path, s))>> :
     s \in WmSections(path, separators)}

\* A set of mounts that may be: relative paths without empty or dot folders,
\* none of them inside another, and one for each Source Space.
WmProper(sources, mounts) ==
  LET S == 1 .. Len(sources)
      M == 1 .. Len(mounts)
      path(i) == mounts[i].path
  IN /\ S # {}
     /\ \A i \in S : WmTrim[sources[i]] # WmBlank
     /\ \A i, j \in S : i # j => WmTrim[sources[i]] # WmTrim[sources[j]]
     /\ \A i \in S : \E j \in M : WmTrim[mounts[j].source] = WmTrim[sources[i]]
     /\ Len(mounts) = Len(sources)
     /\ \A i \in M :
          /\ \A f \in WmFolders(path(i)) : f[2] \notin WmBadSegments
          /\ "nul" \notin ToSet(path(i))
          /\ ~ (Len(path(i)) > 1 /\ path(i)[1] \in {"a", "b", "A"} /\ path(i)[2] = ":")
     /\ \A i, j \in M : i # j => ~ (WmFolders(path(i)) \subseteq WmFolders(path(j)))

\* Mounts are accepted exactly when they may be, in whatever order they are
\* given and walked through (validateWorkspaceMounts).
WmAcceptsProper ==
  wmCall.at = "done" =>
    (wmCall.outcome = "accepted" <=> WmProper(wmCall.sources, wmCall.mounts))
=============================================================================
