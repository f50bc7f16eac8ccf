---------------------------- MODULE MCBuildScript ----------------------------
EXTENDS BuildScript

\* The platforms of the #[cfg], and two that are not supported.
AllPlatforms ==
    {[os |-> "windows", arch |-> "x86_64"],
     [os |-> "windows", arch |-> "aarch64"],
     [os |-> "macos", arch |-> "aarch64"],
     [os |-> "linux", arch |-> "x86_64"],
     [os |-> "linux", arch |-> "aarch64"],
     [os |-> "freebsd", arch |-> "x86_64"]}

\* A mirror of an older release, and one without TLS.
SmallArchives ==
    [official |-> <<"solclient", "third-party">>, mirror |-> <<"solclient">>, plain |-> <<"solclient">>]

\* Nothing special, docs.rs, a library at hand, another URL or an empty one, and
\* the checksum waived.
SomeEnvironments ==
    {Plain, [Plain EXCEPT !.docs = TRUE], [Plain EXCEPT !.lib = TRUE],
     [Plain EXCEPT !.url = "empty", !.skip = "empty"], [Plain EXCEPT !.url = "mirror"],
     [Plain EXCEPT !.url = "plain"], [Plain EXCEPT !.skip = "1"],
     [Plain EXCEPT !.url = "mirror", !.skip = "1"]}
=============================================================================
