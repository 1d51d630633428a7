SPECIFICATION Spec
CONSTANTS
    None = None
    Parts = {"sync", "slots", "regions", "copy", "keys", "map", "json", "pair", "index", "graph", "mpi"}
INVARIANTS
    
    PagesExact
    
    
    ValuesExact
    
    
    

    
