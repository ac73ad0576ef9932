\* files may change under the program
CONSTANTS
    laps = laps
    drivers = drivers
    lap_times = lap_times
    lap_speeds = lap_speeds
    by_driver = by_driver
    misspelt = misspelt
    mistyped = mistyped
    Query = {lap_times, lap_speeds, by_driver, misspelt, mistyped}
    Table = {laps, drivers}
    Content = {"small", "large"}
    Missing = Missing
    None = None
    TablesOf <- AllTablesOf
    Illegal = {misspelt}
    Unplannable = {mistyped}
    Raises <- AllRaises
    MaxQueries = 2
    MaxRewrites = 2
SPECIFICATION SessionSpec
INVARIANTS Fresh ExecutedOnce ExitCode
PROPERTY Ends
