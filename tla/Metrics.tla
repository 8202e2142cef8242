------------------------------ MODULE Metrics ------------------------------
(***************************************************************************)
(* What a metric is (metrics): its unit, whether lower is better, the      *)
(* phase of a benchmark that emits it, and whether it only informs.        *)
(***************************************************************************)
EXTENDS TLC

\* A catalogued metric, by name.
Identity(name, unit, lower, phase) ==
    name :> [unit |-> unit, lowerIsBetter |-> lower, phase |-> phase]

\* catalog::ALL
Catalogue ==
    Identity("cpu.single_mops_s", "Mops/s", FALSE, "cpu")
    @@ Identity("cpu.multi_mops_s", "Mops/s", FALSE, "cpu")
    @@ Identity("cpu.multi_elapsed_ms", "ms", TRUE, "cpu")
    @@ Identity("memory.write_gib_s", "GiB/s", FALSE, "memory")
    @@ Identity("memory.read_gib_s", "GiB/s", FALSE, "memory")
    @@ Identity("filesystem.sequential_write_mib_s", "MiB/s", FALSE, "filesystem")
    @@ Identity("filesystem.sequential_read_mib_s", "MiB/s", FALSE, "filesystem")
    @@ Identity("filesystem.small_file_ops_s", "ops/s", FALSE, "filesystem")
    @@ Identity("filesystem.small_file_total_ms", "ms", TRUE, "filesystem")
    @@ Identity("filesystem.sustained_seek_ops_s", "ops/s", FALSE, "filesystem")
    @@ Identity("sqlite.insert_rows_s", "rows/s", FALSE, "sqlite")
    @@ Identity("sqlite.lookup_ms", "ms", TRUE, "sqlite")
    @@ Identity("process.spawn_ms", "ms", TRUE, "process")
    @@ Identity("network.loopback_connect_ms", "ms", TRUE, "network")
    @@ Identity("network.loopback_mib_s", "MiB/s", FALSE, "network")
    @@ Identity("network.https_latency_ms", "ms", TRUE, "network")
    @@ Identity("llm.total_cost_usd", "USD", TRUE, "live_llm")
    @@ Identity("llm.phase_wall_seconds", "s", TRUE, "live_llm")

\* is_informational: how a run was composed, not what the machine can do.
Informational == {"cpu.multi_elapsed_ms", "filesystem.small_file_total_ms", "llm.total_cost_usd",
                  "llm.phase_wall_seconds"}

\* families: metrics of one integration, or of one live case, <<family, which>>.
Families == [tool_startup_ms |-> "integrations", wall_ms |-> "live_llm", ttft_stream_ms |-> "live_llm",
             output_tokens_s |-> "live_llm"]

=============================================================================
