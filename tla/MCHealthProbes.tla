---------------------------- MODULE MCHealthProbes ----------------------------
(* An instance of HealthProbes for TLC: the checks that are watched together. *)
EXTENDS HealthProbes

MCWatches ==
  {{"wfs_api", "wfs_api_startup"}, {"wfs_api", "detector_status"},
   {"fcd_mapping", "detector_status"}, {"update_freshness"}, {"output_file"},
   {"azure_storage_startup", "fcd_sqlite_segments"},
   {"azure_storage", "mapping_integrity"}, {"data_freshness", "update_cycle"},
   {"mapping_freshness", "processing_pipeline"},
   {"influxdb_fcd_startup", "influxdb_validation"},
   {"influxdb_fcd", "orchestrator_loop"}, {"disturbance_data"}, {"worker_status"},
   {"sqlite_disturbances_integrity", "sqlite_profiles"}}
=============================================================================
