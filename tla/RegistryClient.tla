--------------------------- MODULE RegistryClient ---------------------------
(***************************************************************************)
(* The client a check pod asks the registry with                           *)
(* (actor/registryv2/pkg/registryv2, and what pkg/check makes of its       *)
(* answer).  A tag exists when its manifest is there; on ghcr.io each      *)
(* question is preceded by one for a token, because the methods of         *)
(* Registry work on copies that forget the token they were given.          *)
(***************************************************************************)

\* What a request may come back with: 200, another status, or no answer at all.
Replies == {"ok", "refused", "error"}

\* The token of a 200 may be in a body that is no JSON.
TokenReplies == Replies \cup {"garbled"}

\* A manifest is found only when an image was pushed for its tag.
ManifestReplies(tag, pushed) == IF tag \in pushed THEN Replies ELSE Replies \ {"ok"}

\* isGhcr decides whether a token is needed; without one nothing is asked.
get(ghcr, token, manifest) == IF ghcr /\ token # "ok" THEN "error" ELSE manifest

\* The status code is not looked at.
TagExistsUnlessError(reply) == reply # "error"

\* Any other status than 200 is a "no" without an error.
TagExists(reply) == reply = "ok"

\* Output logs an error and takes it for a "no".
parseExist(exist) == IF exist THEN "True" ELSE "False"

\* What a check pod may record of a tag.
Answers(tag, pushed) ==
    {parseExist(TagExists(get(ghcr, token, manifest))) :
        ghcr \in BOOLEAN, token \in TokenReplies, manifest \in ManifestReplies(tag, pushed)}
=============================================================================
