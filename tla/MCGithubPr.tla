----------------------------- MODULE MCGithubPr -----------------------------
(* A pull request whose commits touch the lock, other files or both.  That *)
(* a lock is not valid shows nothing that a lock that cannot be read does  *)
(* not show; a check that blocks or warns, nothing that an incomplete one  *)
(* does not.                                                               *)
EXTENDS GithubPr

MCContents ==
  [changed : {{"lock"}, {"code"}, {"lock", "code"}}, lock : {"valid"}]
=============================================================================
