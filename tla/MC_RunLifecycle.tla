--------------------------- MODULE MC_RunLifecycle ---------------------------
EXTENDS RunLifecycle
CONSTANT k1

\* One cleanup of any mode against a scan of three stages: one that may be
\* skipped, one that tolerates a lost manifest, one that publishes findings.
MCPipeline == <<"decompiling", "ai_analysis", "aggregation">>
MCDirs == {"index", "ai-cache", "findings"}
MCSourceChoices == {TRUE, FALSE}
MCCleaners == {k1}

=============================================================================
