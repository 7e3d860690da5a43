---------------------- MODULE GithubDispatchRefinement ----------------------
(* GithubDispatch implements UploadOutput: of its workflow runs, attempts and *)
(* signals only the results, the deadline and the death of the process show.  *)
EXTENDS MCGithubDispatch

Output == INSTANCE UploadOutput
            WITH input <- Builds, killed <- (process = "killed")

\* Whatever GitHub, the signals and the retries do, each build gets one result that
\* is never taken back, a success only while the context lives, and after its 20
\* minutes every build has one (upload.go:30-60, github.go:160-299).
OutputKept == Output!FairSpec
=============================================================================
